---- MODULE Spec2Model ----
(***************************************************************************)
(* Model of the patent-specification checker (src/meisaisho checker): the  *)
(* docx container (DocxDocument), the check engine (run_checks and the     *)
(* analyzers), and the resolution workflow (review_findings, main).        *)
(*                                                                         *)
(* Text is a sequence of characters; a character is a string that names    *)
(* one code point.  ASCII characters are written as themselves ("a", "1",  *)
(* "("), the others by a name of two or more letters: "SEI" "KYU" "KOU"    *)
(* are the three characters of the claim marker, "F0".."F9" the full-width *)
(* digits, "FSP" the ideographic space, "NL" the line feed.                *)
(***************************************************************************)
EXTENDS Integers, Sequences, FiniteSets, TLC

(***************************************************************************)
(* Bounds of the model.                                                    *)
(***************************************************************************)
MaxRunLen == 2      \* longest text run of a document of the round trip (SpecRoundTrip)
MaxPatLen == 2      \* longest old/new argument of the round trip (SpecRoundTrip)

(***************************************************************************)
(* Python values.                                                          *)
(***************************************************************************)
None == <<>>                    \* Optional[T]: None is <<>>, a value x is <<x>>
Some(x) == <<x>>

Range(s) == {s[i] : i \in 1..Len(s)}

\* all sequences over S of length 0..n
RECURSIVE SeqsUpTo(_, _)
SeqsUpTo(S, n) ==
    IF n = 0 THEN {<<>>}
    ELSE LET shorter == SeqsUpTo(S, n - 1)
         IN  shorter \cup {Append(s, c) : s \in {t \in shorter : Len(t) = n - 1}, c \in S}

(***************************************************************************)
(* str operations used by the program.                                     *)
(***************************************************************************)
\* s[i:i+len(p)] == p   (i is 1-based)
MatchAt(s, p, i) ==
    /\ i + Len(p) - 1 <= Len(s)
    /\ \A k \in 1..Len(p) : s[i + k - 1] = p[k]

\* p in s
Contains(s, p) == \E i \in 1..(Len(s) - Len(p) + 1) : MatchAt(s, p, i)

\* (a replace that stops after the first occurrence)
RECURSIVE ReplaceFromOnce(_, _, _, _)
ReplaceFromOnce(s, old, new, i) ==
    IF i > Len(s) THEN <<>>
    ELSE IF MatchAt(s, old, i) THEN new \o SubSeq(s, i + Len(old), Len(s))
    ELSE <<s[i]>> \o ReplaceFromOnce(s, old, new, i + 1)

\* s.replace(old, new) for a non-empty old: leftmost, non-overlapping occurrences
RECURSIVE ReplaceFrom(_, _, _, _)
ReplaceFrom(s, old, new, i) ==
    IF i > Len(s) THEN <<>>
    ELSE IF MatchAt(s, old, i) THEN new \o ReplaceFrom(s, old, new, i + Len(old))
    ELSE <<s[i]>> \o ReplaceFrom(s, old, new, i + 1)

\* "".replace("", new) == new; otherwise new is put before every character and at the end
RECURSIVE Interleave(_, _)
Interleave(s, new) ==
    IF s = <<>> THEN new ELSE new \o <<Head(s)>> \o Interleave(Tail(s), new)

str_replace(s, old, new) ==
    IF old = <<>> THEN Interleave(s, new) ELSE ReplaceFrom(s, old, new, 1)

\* sep.join(parts)
RECURSIVE Join(_, _)
Join(parts, sep) ==
    IF parts = <<>> THEN <<>>
    ELSE IF Len(parts) = 1 THEN parts[1]
    ELSE parts[1] \o sep \o Join(Tail(parts), sep)

RECURSIVE Concat(_)
Concat(parts) == IF parts = <<>> THEN <<>> ELSE Head(parts) \o Concat(Tail(parts))

(***************************************************************************)
(* Characters: the code point of each (sorted() orders strings by it) and  *)
(* the classes the regular expressions of the program name.                *)
(***************************************************************************)
CodePoints ==
    <<
       <<"SEI", 35531>>, <<"KYU", 27714>>, <<"KOU", 38917>>, <<"TOKU", 29305>>,
       <<"KYO", 35377>>, <<"NO", 12398>>, <<"HAN", 31684>>, <<"KAKOI", 22258>>,
       <<"HATSU", 30330>>, <<"MEI", 26126>>, <<"SHOU", 35443>>, <<"SAI", 32048>>,
       <<"NA", 12394>>, <<"SETSU", 35500>>, <<"KA", 35506>>, <<"DAI", 38988>>,
       <<"WO", 12434>>, <<"KAI", 35299>>, <<"KETSU", 27770>>, <<"SU", 12377>>,
       <<"RU", 12427>>, <<"TA", 12383>>, <<"ME", 12417>>, <<"SHU", 25163>>,
       <<"DAN", 27573>>, <<"ZU", 22259>>, <<"MEN", 38754>>, <<"KAN", 31777>>,
       <<"TAN", 21336>>, <<"JITSU", 23455>>, <<"SHI", 26045>>, <<"REI", 20363>>,
       <<"KEI", 24418>>, <<"TAI", 24907>>, <<"KOH", 21177>>, <<"KWA", 26524>>,
       <<"YOU", 35201>>, <<"SHUU", 20462>>, <<"TADA", 27491>>, <<"SOU", 35013>>,
       <<"CHI", 32622>>, <<"KATA", 12450>>, <<"LB", 12304>>, <<"RB", 12305>>,
       <<"LQ", 12300>>, <<"RQ", 12301>>, <<"FLP", 65288>>, <<"FRP", 65289>>,
       <<"ELL", 8230>>, <<"FSP", 12288>>, <<"NL", 10>>, <<"TAB", 9>>, <<"F0", 65296>>,
       <<"F1", 65297>>, <<"F2", 65298>>, <<"F3", 65299>>, <<"F4", 65300>>,
       <<"F5", 65301>>, <<"F6", 65302>>, <<"F7", 65303>>, <<"F8", 65304>>,
       <<"F9", 65305>>, <<"a", 97>>, <<"b", 98>>, <<"c", 99>>, <<"d", 100>>,
       <<"e", 101>>, <<"f", 102>>, <<"g", 103>>, <<"h", 104>>, <<"i", 105>>,
       <<"j", 106>>, <<"k", 107>>, <<"l", 108>>, <<"m", 109>>, <<"n", 110>>,
       <<"o", 111>>, <<"p", 112>>, <<"q", 113>>, <<"r", 114>>, <<"s", 115>>,
       <<"t", 116>>, <<"u", 117>>, <<"v", 118>>, <<"w", 119>>, <<"x", 120>>,
       <<"y", 121>>, <<"z", 122>>, <<"A", 65>>, <<"B", 66>>, <<"C", 67>>, <<"D", 68>>,
       <<"E", 69>>, <<"F", 70>>, <<"G", 71>>, <<"H", 72>>, <<"I", 73>>, <<"J", 74>>,
       <<"K", 75>>, <<"L", 76>>, <<"M", 77>>, <<"N", 78>>, <<"O", 79>>, <<"P", 80>>,
       <<"Q", 81>>, <<"R", 82>>, <<"S", 83>>, <<"T", 84>>, <<"U", 85>>, <<"V", 86>>,
       <<"W", 87>>, <<"X", 88>>, <<"Y", 89>>, <<"Z", 90>>, <<"0", 48>>, <<"1", 49>>,
       <<"2", 50>>, <<"3", 51>>, <<"4", 52>>, <<"5", 53>>, <<"6", 54>>, <<"7", 55>>,
       <<"8", 56>>, <<"9", 57>>, <<" ", 32>>, <<"-", 45>>, <<"(", 40>>, <<")", 41>>,
       <<",", 44>>, <<"?", 63>>
    >>

Kanji ==
    {
       "SEI", "KYU", "KOU", "TOKU", "KYO", "HAN", "KAKOI", "HATSU", "MEI", "SHOU",
       "SAI", "SETSU", "KA", "DAI", "KAI", "KETSU", "SHU", "DAN", "ZU", "MEN", "KAN",
       "TAN", "JITSU", "SHI", "REI", "KEI", "TAI", "KOH", "KWA", "YOU", "SHUU", "TADA",
       "SOU", "CHI"
    }

Kana == {"NO", "NA", "WO", "SU", "RU", "TA", "ME", "KATA"}

Chars == {CodePoints[i][1] : i \in 1..Len(CodePoints)}

CodePoint == [c \in Chars |-> CodePoints[CHOOSE i \in 1..Len(CodePoints) : CodePoints[i][1] = c][2]]

AsciiDigits == <<"0", "1", "2", "3", "4", "5", "6", "7", "8", "9">>
FullwidthDigits == <<"F0", "F1", "F2", "F3", "F4", "F5", "F6", "F7", "F8", "F9">>

LowerLetters ==
    <<"a", "b", "c", "d", "e", "f", "g", "h", "i", "j", "k", "l", "m",
      "n", "o", "p", "q", "r", "s", "t", "u", "v", "w", "x", "y", "z">>
UpperLetters ==
    <<"A", "B", "C", "D", "E", "F", "G", "H", "I", "J", "K", "L", "M",
      "N", "O", "P", "Q", "R", "S", "T", "U", "V", "W", "X", "Y", "Z">>

\* \s of re, and the characters str.strip() removes
Whitespace == {" ", "FSP", "NL", "TAB"}

IsAsciiDigit(c) == c \in Range(AsciiDigits)
IsAnyDigit(c) == c \in Range(AsciiDigits) \cup Range(FullwidthDigits)    \* ASCII or full-width digit
IsKanjiOrKana(c) == c \in Kanji \cup Kana                               \* kanji, hiragana, katakana

IndexOf(seq, c) == CHOOSE i \in 1..Len(seq) : seq[i] = c

\* str.lower() of one character
LowerChar(c) == IF c \in Range(UpperLetters) THEN LowerLetters[IndexOf(UpperLetters, c)] ELSE c

\* str.lower()
Lower(s) == [i \in 1..Len(s) |-> LowerChar(s[i])]

\* _normalize_digit_string / str.translate(_FULLWIDTH_DIGITS)
_normalize_digit_string(s) ==
    [i \in 1..Len(s) |->
        IF s[i] \in Range(FullwidthDigits) THEN AsciiDigits[IndexOf(FullwidthDigits, s[i])]
        ELSE s[i]]

\* (a translate that maps every digit to itself)
ToFullwidthSame(s) == [i \in 1..Len(s) |-> s[i]]

\* the translate of check_claim_notation: ASCII digits to full-width digits
ToFullwidth(s) ==
    [i \in 1..Len(s) |->
        IF s[i] \in Range(AsciiDigits) THEN FullwidthDigits[IndexOf(AsciiDigits, s[i])]
        ELSE s[i]]

\* int(s) for a string of ASCII digits
RECURSIVE IntOf(_)
IntOf(s) ==
    IF s = <<>> THEN 0
    ELSE 10 * IntOf(SubSeq(s, 1, Len(s) - 1)) + (IndexOf(AsciiDigits, s[Len(s)]) - 1)

\* str(n) for n >= 0
RECURSIVE StrOf(_)
StrOf(n) == IF n < 10 THEN <<AsciiDigits[n + 1]>> ELSE StrOf(n \div 10) \o <<AsciiDigits[(n % 10) + 1]>>

\* f"{n:03d}" for n >= 0
Fmt03d(n) ==
    LET d == StrOf(n)
    IN  IF Len(d) >= 3 THEN d ELSE [i \in 1..(3 - Len(d)) |-> "0"] \o d

\* s[:i] of Python
UpTo(s, i) == SubSeq(s, 1, IF i < Len(s) THEN i ELSE Len(s))

\* str.strip()
RECURSIVE LStrip(_)
LStrip(s) == IF s # <<>> /\ Head(s) \in Whitespace THEN LStrip(Tail(s)) ELSE s

RECURSIVE RStrip(_)
RStrip(s) ==
    IF s # <<>> /\ s[Len(s)] \in Whitespace THEN RStrip(SubSeq(s, 1, Len(s) - 1)) ELSE s

Strip(s) == RStrip(LStrip(s))

\* re.sub(r"\s+", " ", s): of each run of whitespace only its first character
\* is kept, as one space; i is the first place looked at
CollapseSpace(s, i) ==
    LET Placed == [k \in 1..Len(s) |-> <<k, s[k]>>]
        Kept(p) == /\ p[1] >= i
                   /\ ~(p[2] \in Whitespace /\ p[1] > 1 /\ s[p[1] - 1] \in Whitespace)
        kept == SelectSeq(Placed, Kept)
    IN  [k \in 1..Len(kept) |-> IF kept[k][2] \in Whitespace THEN " " ELSE kept[k][2]]

_normalize_whitespace(text) == CollapseSpace(Strip(text), 1)

\* a < b for strings, as sorted() compares them
RECURSIVE StrLess(_, _)
StrLess(a, b) ==
    IF b = <<>> THEN FALSE
    ELSE IF a = <<>> THEN TRUE
    ELSE IF Head(a) = Head(b) THEN StrLess(Tail(a), Tail(b))
    ELSE CodePoint[Head(a)] < CodePoint[Head(b)]

\* sorted(S) for a set of strings
RECURSIVE Sorted(_)
Sorted(S) ==
    IF S = {} THEN <<>>
    ELSE LET least == CHOOSE a \in S : \A b \in S \ {a} : StrLess(a, b)
         IN  <<least>> \o Sorted(S \ {least})

(***************************************************************************)
(* The text-layer tree.  findall(".//w:t") lists the text runs in document *)
(* order: runs[i] is the text of the i-th w:t (<<>> for None or "").       *)
(* findall(".//w:p") lists the block elements in document order: blocks[j] *)
(* is the list of the runs below the j-th w:p.  A run below a nested w:p   *)
(* is in both blocks; a w:t outside every w:p is in none.                  *)
(***************************************************************************)
Tree(runs, blocks) == [runs |-> runs, blocks |-> blocks]

EmptyTree == Tree(<<>>, <<>>)

\* the text runs of block b that are not empty, in order:
\* [t.text for t in p.findall(".//w:t") if t.text]
RECURSIVE BlockTexts(_, _)
BlockTexts(runs, b) ==
    IF b = <<>> THEN <<>>
    ELSE IF runs[Head(b)] # <<>> THEN <<runs[Head(b)]>> \o BlockTexts(runs, Tail(b))
    ELSE BlockTexts(runs, Tail(b))

\* the loop of DocxDocument.paragraphs over the blocks from the j-th on
RECURSIVE ParasFrom(_, _)
ParasFrom(t, j) ==
    IF j > Len(t.blocks) THEN <<>>
    ELSE LET texts == BlockTexts(t.runs, t.blocks[j])
         IN  IF texts # <<>> THEN <<Concat(texts)>> \o ParasFrom(t, j + 1)
             ELSE ParasFrom(t, j + 1)

ComputeParagraphs(t) == ParasFrom(t, 1)

\* the value the paragraphs property leaves in _paragraph_cache
CacheAfterRead(t, c) == IF c = None THEN Some(ComputeParagraphs(t)) ELSE c

\* full_text: "\n".join(self.paragraphs)
FullTextOf(paras) == Join(paras, <<"NL">>)

\* (a replace_text that sets a matching run to new)
ReplaceRunsAssign(runs, old, new) ==
    [i \in 1..Len(runs) |-> IF runs[i] # <<>> /\ Contains(runs[i], old) THEN new ELSE runs[i]]

\* the loop of replace_text over the runs
ReplaceRuns(runs, old, new) ==
    [i \in 1..Len(runs) |->
        IF runs[i] # <<>> /\ Contains(runs[i], old) THEN str_replace(runs[i], old, new)
        ELSE runs[i]]

\* (a replace_text that looks for old in the runs joined)
ReplaceChangedJoined(runs, old) ==
    /\ old # <<>>
    /\ Contains(Concat(runs), old)

\* the flag `changed` of replace_text at its return
ReplaceChanged(runs, old) ==
    /\ old # <<>>
    /\ \E i \in 1..Len(runs) : runs[i] # <<>> /\ Contains(runs[i], old)

\* the runs replace_text leaves
ReplaceResult(runs, old, new) ==
    IF old = <<>> THEN runs ELSE ReplaceRuns(runs, old, new)

\* (a replace_text that keeps the cache)
CacheKept(c, changed) == c

\* _paragraph_cache after replace_text
CacheAfterReplace(c, changed) == IF changed THEN None ELSE c

(***************************************************************************)
(* The archive.  A file is missing, not a zip, or a zip: a list of entries *)
(* (name, data, meta), where a name may occur more than once.  The data of *)
(* an entry is raw bytes (id) or an XML document: its tree and the surface *)
(* form of its bytes, "src" as the word processor wrote it, "etree" as     *)
(* ElementTree.tostring writes it (another declaration, other prefixes).   *)
(* meta.kept stands for date_time, compress_type, comment and extra, which *)
(* save copies; meta.other for the rest of the ZipInfo, which it does not. *)
(***************************************************************************)
DocEntry == "word/document.xml"

Raw(id) == [kind |-> "raw", id |-> id, form |-> "", tree |-> EmptyTree]
Xml(form, t) == [kind |-> "xml", id |-> 0, form |-> form, tree |-> t]

Meta(kept, other) == [kept |-> kept, other |-> other]
DefaultMeta == Meta(0, 0)

Entry(name, data, meta) == [name |-> name, data |-> data, meta |-> meta]

MissingFile == [kind |-> "missing", entries |-> <<>>]
NotZipFile == [kind |-> "notzip", entries |-> <<>>]
ZipFileOf(entries) == [kind |-> "zip", entries |-> entries]

\* ET.tostring(self._tree, encoding="utf-8", xml_declaration=True)
ET_tostring(t) == Xml("etree", t)

\* ET.fromstring(data) succeeds
ET_parses(data) == data.kind = "xml"

\* ET.fromstring(data)
ET_fromstring(data) == data.tree

(***************************************************************************)
(* A Python dict: a list of <<key, value>> with distinct keys, in          *)
(* insertion order.                                                        *)
(***************************************************************************)
DictHas(d, k) == \E i \in 1..Len(d) : d[i][1] = k

DictGet(d, k) == d[CHOOSE i \in 1..Len(d) : d[i][1] = k][2]

DictKeys(d) == [i \in 1..Len(d) |-> d[i][1]]

DictValues(d) == [i \in 1..Len(d) |-> d[i][2]]

\* d[k] = v: an existing key keeps its place and takes the new value
DictSet(d, k, v) ==
    IF DictHas(d, k) THEN [i \in 1..Len(d) |-> IF d[i][1] = k THEN <<k, v>> ELSE d[i]]
    ELSE Append(d, <<k, v>>)

\* zf.read(name): the data of the last entry of that name
ZipRead(entries, name) ==
    entries[CHOOSE i \in 1..Len(entries) :
                /\ entries[i].name = name
                /\ \A j \in (i + 1)..Len(entries) : entries[j].name # name].data

\* the loop of __init__ over zf.infolist(): _zip_infos and _zip_content
RECURSIVE ReadInfos(_, _, _)
ReadInfos(entries, i, d) ==
    IF i > Len(entries) THEN d
    ELSE ReadInfos(entries, i + 1, DictSet(d, entries[i].name, entries[i].meta))

RECURSIVE ReadContent(_, _, _)
ReadContent(entries, i, d) ==
    IF i > Len(entries) THEN d
    ELSE ReadContent(entries, i + 1,
                     DictSet(d, entries[i].name, ZipRead(entries, entries[i].name)))

\* the entry save writes for (filename, data)
SavedEntry(infos, filename, data) ==
    IF DictHas(infos, filename)
    THEN Entry(filename, data, Meta(DictGet(infos, filename).kept, 0))
    ELSE Entry(filename, data, DefaultMeta)

\* (a save that writes the text-layer entry alone)
SavedEntriesTextOnly(infos, content) ==
    << SavedEntry(infos, DocEntry, DictGet(content, DocEntry)) >>

\* the entries save writes, in the order of _zip_content.items()
SavedEntries(infos, content) ==
    [i \in 1..Len(content) |-> SavedEntry(infos, content[i][1], content[i][2])]

(***************************************************************************)
(* Findings.  An identifier, a message and a context are strings; in a     *)
(* message a fixed piece of wording is one character, written "<...>".     *)
(* Categories, severities and suggestions are only carried along and are   *)
(* named by a word; titles and locations by a word and the number they     *)
(* embed.                                                                  *)
(* An autofix is None or the (old, new) its closure hands to replace_text. *)
(***************************************************************************)
Finding(identifier, title, message, category, severity, location, context, suggestion, autofix) ==
    [identifier |-> identifier, title |-> title, message |-> message,
     category |-> category, severity |-> severity, location |-> location,
     context |-> context, suggestion |-> suggestion, autofix |-> autofix]

AutoFix(label, old, new) == [label |-> label, old |-> old, new |-> new]

SnippetMax == 120

\* _paragraph_snippet(paragraphs, index), index counted from 0
_paragraph_snippet(paras, index) ==
    IF ~(0 <= index /\ index < Len(paras)) THEN <<>>
    ELSE LET snippet == _normalize_whitespace(paras[index + 1])
         IN  UpTo(snippet, SnippetMax) \o (IF Len(snippet) > SnippetMax THEN <<"ELL">> ELSE <<>>)

ClaimMarker == <<"SEI", "KYU", "KOU">>

\* the first place from i on that holds none of the characters of S
RECURSIVE SkipWhile(_, _, _)
SkipWhile(s, i, S) == IF i <= Len(s) /\ s[i] \in S THEN SkipWhile(s, i + 1, S) ELSE i

AnyDigits == Range(AsciiDigits) \cup Range(FullwidthDigits)

\* the pattern of _extract_claims matches with its marker at k: the marker, then
\* spaces and ideographic spaces, then a digit
ClaimAt(s, k) ==
    /\ MatchAt(s, ClaimMarker, k)
    /\ LET d == SkipWhile(s, k + Len(ClaimMarker), {" ", "FSP"})
       IN  d <= Len(s) /\ IsAnyDigit(s[d])

HasClaim(s) == \E k \in 1..Len(s) : ClaimAt(s, k)

\* pattern.search(para): group(1) and the text after match.end()
ClaimMatch(s) ==
    LET k == CHOOSE k \in 1..Len(s) : ClaimAt(s, k) /\ \A j \in 1..(k - 1) : ~ClaimAt(s, j)
        d == SkipWhile(s, k + Len(ClaimMarker), {" ", "FSP"})
        e == SkipWhile(s, d, AnyDigits)
    IN  [number |-> SubSeq(s, d, e - 1), rest |-> SubSeq(s, e, Len(s))]

\* _extract_claims(paragraphs) from the paragraph of index idx on: (number, idx, body)
RECURSIVE ClaimsFrom(_, _)
ClaimsFrom(paras, idx) ==
    IF idx >= Len(paras) THEN <<>>
    ELSE LET para == paras[idx + 1]
         IN  IF ~Contains(para, ClaimMarker) \/ ~HasClaim(para) THEN ClaimsFrom(paras, idx + 1)
             ELSE LET m == ClaimMatch(para)
                  IN  << [number |-> IntOf(_normalize_digit_string(m.number)),
                          idx |-> idx, body |-> Strip(m.rest)] >>
                      \o ClaimsFrom(paras, idx + 1)

_extract_claims(paras) == ClaimsFrom(paras, 0)

\* the identifiers' prefixes
Id_NUM == <<"N", "U", "M", "-">>
Id_SUP == <<"S", "U", "P", "-">>
Id_TMP == <<"T", "M", "P", "-">>
Id_FMT == <<"F", "M", "T", "-">>
Id_FMT_PAREN == <<"F", "M", "T", "-", "P", "A", "R", "E", "N", "-">>
Id_REQ == <<"R", "E", "Q", "-">>
Id_ENB == <<"E", "N", "B", "-">>
Id_FIG == <<"F", "I", "G", "-">>
Id_ERR == <<"E", "R", "R", "-">>

\* the finding of check_claim_numbering for a claim against the expected number
NumberingFinding(paras, claim, expected) ==
    Finding(Id_NUM \o Fmt03d(claim.number),
            <<"numbering">>,
            <<"<claim>">> \o StrOf(claim.number) \o <<"<differs from the expected order>", " ">>
                \o StrOf(expected) \o <<" ", "<.>">>,
            "format", "medium",
            <<"claim", claim.number>>,
            _paragraph_snippet(paras, claim.idx),
            "renumber",
            None)

\* (a numbering check that leaves the expected number where it was after a mismatch)
RECURSIVE NumberingLoopStale(_, _, _, _)
NumberingLoopStale(paras, claims, i, expected) ==
    IF i > Len(claims) THEN <<>>
    ELSE IF claims[i].number # expected
         THEN <<NumberingFinding(paras, claims[i], expected)>>
              \o NumberingLoopStale(paras, claims, i + 1, expected + 1)
    ELSE NumberingLoopStale(paras, claims, i + 1, expected + 1)

\* (a numbering check that expects the same number again after a mismatch)
RECURSIVE NumberingLoopKeep(_, _, _, _)
NumberingLoopKeep(paras, claims, i, expected) ==
    IF i > Len(claims) THEN <<>>
    ELSE IF claims[i].number # expected
         THEN <<NumberingFinding(paras, claims[i], expected)>>
              \o NumberingLoopKeep(paras, claims, i + 1, expected)
    ELSE NumberingLoopKeep(paras, claims, i + 1, expected + 1)

\* the loop of check_claim_numbering from the i-th claim on
RECURSIVE NumberingLoop(_, _, _, _)
NumberingLoop(paras, claims, i, expected) ==
    IF i > Len(claims) THEN <<>>
    ELSE IF claims[i].number # expected
         THEN <<NumberingFinding(paras, claims[i], expected)>>
              \o NumberingLoop(paras, claims, i + 1, claims[i].number + 1)
    ELSE NumberingLoop(paras, claims, i + 1, expected + 1)

check_claim_numbering(paras) == NumberingLoop(paras, _extract_claims(paras), 1, 1)

(***************************************************************************)
(* _extract_keywords and check_support_requirement                         *)
(***************************************************************************)
\* re.findall of a character class repeated n or more times: the maximal runs
\* of the class that are that long
RECURSIVE RunsOf(_, _, _, _)
RunsOf(s, i, S, n) ==
    IF i > Len(s) THEN {}
    ELSE IF s[i] \notin S THEN RunsOf(s, i + 1, S, n)
    ELSE LET e == SkipWhile(s, i, S)
         IN  (IF e - i >= n THEN {SubSeq(s, i, e - 1)} ELSE {}) \cup RunsOf(s, e, S, n)

WordChars ==
    Range(LowerLetters) \cup Range(UpperLetters) \cup Range(AsciiDigits) \cup {"-"}

\* the first place from i on that holds c, or Len(s) + 1
RECURSIVE Find(_, _, _)
Find(s, i, c) == IF i > Len(s) \/ s[i] = c THEN i ELSE Find(s, i + 1, c)

\* re.findall of an opening corner bracket, n or more characters other than the
\* closing one, and the closing one: the texts between the brackets
RECURSIVE QuotedFrom(_, _, _)
QuotedFrom(s, i, n) ==
    IF i > Len(s) THEN {}
    ELSE IF s[i] # "LQ" THEN QuotedFrom(s, i + 1, n)
    ELSE LET e == Find(s, i + 1, "RQ")
         IN  IF e <= Len(s) /\ e - (i + 1) >= n
             THEN {SubSeq(s, i + 1, e - 1)} \cup QuotedFrom(s, e + 1, n)
             ELSE QuotedFrom(s, i + 1, n)

MinWord == 3
MinKanji == 2
MinQuoted == 2

_extract_keywords(text) ==
    Sorted({Lower(w) : w \in RunsOf(text, 1, WordChars, MinWord)}
           \cup {w \in RunsOf(text, 1, Kanji, MinKanji) : Len(w) >= MinKanji}
           \cup {c \in {Strip(q) : q \in QuotedFrom(text, 1, MinQuoted)} : Len(c) >= MinQuoted})

MaxMissing == 5

SupportFinding(paras, claim, missing) ==
    Finding(Id_SUP \o Fmt03d(claim.number),
            <<"support", claim.number>>,
            <<"<claim>">> \o StrOf(claim.number) \o <<"<: the terms>", " ">>
                \o Join(UpTo(missing, MaxMissing), <<",", " ">>)
                \o <<" ", "<are not explained in the description.>">>,
            "support", "medium",
            <<"claim", claim.number>>,
            _paragraph_snippet(paras, claim.idx),
            "describe",
            None)

\* the loop of check_support_requirement from the i-th claim on
RECURSIVE SupportLoop(_, _, _, _)
SupportLoop(paras, description_text, claims, i) ==
    IF i > Len(claims) THEN <<>>
    ELSE LET NotDescribed(kw) == kw # <<>> /\ ~Contains(description_text, kw)
             missing == SelectSeq(_extract_keywords(claims[i].body), NotDescribed)
         IN  (IF missing = <<>> THEN <<>> ELSE <<SupportFinding(paras, claims[i], missing)>>)
             \o SupportLoop(paras, description_text, claims, i + 1)

check_support_requirement(paras) ==
    LET NoMarker(para) == ~Contains(para, ClaimMarker)
    IN  SupportLoop(paras, Join(SelectSeq(paras, NoMarker), <<"NL">>), _extract_claims(paras), 1)

(***************************************************************************)
(* check_required_sections, check_enablement, check_figure_consistency     *)
(***************************************************************************)
Kw_Claims == <<"TOKU", "KYO", "SEI", "KYU", "NO", "HAN", "KAKOI">>
Kw_Description == <<"HATSU", "MEI", "NO", "SHOU", "SAI", "NA", "SETSU", "MEI">>
Kw_Means == <<"KA", "DAI", "WO", "KAI", "KETSU", "SU", "RU", "TA", "ME", "NO", "SHU", "DAN">>
Kw_Drawings == <<"ZU", "MEN", "NO", "KAN", "TAN", "NA", "SETSU", "MEI">>
Kw_Example == <<"JITSU", "SHI", "REI">>
Kw_Embodiment == <<"JITSU", "SHI", "NO", "KEI", "TAI">>
Kw_Effect == <<"KOH", "KWA">>
Kw_EffectOfInvention == <<"HATSU", "MEI", "NO", "KOH", "KWA">>

\* the table `requirements`: identifier, severity, message, keyword
Requirements ==
    << [id |-> Id_REQ \o <<"0", "0", "1">>, severity |-> "high",
        message |-> <<"<the claims section is missing>">>, keyword |-> Kw_Claims],
       [id |-> Id_REQ \o <<"0", "0", "2">>, severity |-> "high",
        message |-> <<"<the detailed description is missing>">>, keyword |-> Kw_Description],
       [id |-> Id_REQ \o <<"0", "0", "3">>, severity |-> "medium",
        message |-> <<"<the means for solving the problem are missing>">>, keyword |-> Kw_Means],
       [id |-> Id_REQ \o <<"0", "0", "4">>, severity |-> "medium",
        message |-> <<"<the brief description of the drawings is missing>">>,
        keyword |-> Kw_Drawings] >>

RequirementFinding(r) ==
    Finding(r.id, <<"required section">>, r.message, "legal", r.severity, <<"overall">>,
            <<>>, "add the section", None)

\* (a search for the figure character followed by an ASCII digit only)
HasFigureRefAscii(s) == \E i \in 1..(Len(s) - 1) : s[i] = "ZU" /\ IsAsciiDigit(s[i + 1])

\* re.search of the figure character followed by an ASCII or full-width digit
HasFigureRef(s) == \E i \in 1..(Len(s) - 1) : s[i] = "ZU" /\ IsAnyDigit(s[i + 1])

check_required_sections(paras) ==
    LET joined == FullTextOf(paras)
        Missing(r) == ~Contains(joined, r.keyword)
        findings == [i \in 1..Len(SelectSeq(Requirements, Missing)) |->
                        RequirementFinding(SelectSeq(Requirements, Missing)[i])]
        has_figure_ref == \E i \in 1..Len(paras) : HasFigureRef(paras[i])
        NotDrawings(f) == f.identifier # Id_REQ \o <<"0", "0", "4">>
    IN  IF ~has_figure_ref THEN SelectSeq(findings, NotDrawings) ELSE findings

check_enablement(paras) ==
    LET joined == FullTextOf(paras)
        has_example == \E i \in 1..Len(paras) :
                          Contains(paras[i], Kw_Example) \/ Contains(paras[i], Kw_Embodiment)
    IN  (IF ~has_example
         THEN << Finding(Id_ENB \o <<"0", "0", "1">>, <<"enablement">>,
                         <<"<no example or embodiment is described>">>, "enablement", "high",
                         <<"description">>, <<>>, "add an example", None) >>
         ELSE <<>>)
        \o
        (IF ~(Contains(joined, Kw_Effect) \/ Contains(joined, Kw_EffectOfInvention))
         THEN << Finding(Id_ENB \o <<"0", "0", "2">>, <<"effects">>,
                         <<"<the effects of the invention are not described>">>, "enablement",
                         "medium", <<"description">>, <<>>, "add the effects", None) >>
         ELSE <<>>)

check_figure_consistency(paras) ==
    LET figures_in_text == HasFigureRef(FullTextOf(paras))
        description_section == \E i \in 1..Len(paras) : Contains(paras[i], Kw_Drawings)
    IN  IF ~figures_in_text THEN <<>>
        ELSE IF ~description_section
             THEN << Finding(Id_FIG \o <<"0", "0", "1">>, <<"drawings">>,
                             <<"<figures are referred to but not described>">>, "figure",
                             "medium", <<"drawings">>, <<>>, "describe the figures", None) >>
        ELSE <<>>

(***************************************************************************)
(* check_claim_notation and check_placeholder_text                         *)
(***************************************************************************)
MaxNotationDigits == 2

\* the least number of a non-empty set of integers
Least(S) == CHOOSE x \in S : \A y \in S : x <= y

\* the pattern of the first loop matches with its marker at j
NotationAt(s, j) ==
    /\ MatchAt(s, ClaimMarker, j)
    /\ j + Len(ClaimMarker) <= Len(s)
    /\ IsAsciiDigit(s[j + Len(ClaimMarker)])

\* pattern.finditer(para) for the marker and one or two ASCII digits, from place
\* i on: the digits of each match, the search going on after the match
RECURSIVE NotationMatches(_, _)
NotationMatches(s, i) ==
    LET starts == {j \in i..Len(s) : NotationAt(s, j)}
    IN  IF starts = {} THEN <<>>
        ELSE LET d == Least(starts) + Len(ClaimMarker)
                 all == SkipWhile(s, d, Range(AsciiDigits))
                 e == IF all - d > MaxNotationDigits THEN d + MaxNotationDigits ELSE all
             IN  <<SubSeq(s, d, e - 1)>> \o NotationMatches(s, e)

NotationFinding(paras, idx, ascii_number) ==
    LET original == ClaimMarker \o ascii_number
        replacement == ClaimMarker \o ToFullwidth(ascii_number)
    IN  Finding(Id_FMT \o Fmt03d(idx) \o <<"-">> \o ascii_number,
                <<"claim notation">>,
                <<"<'>">> \o original \o <<"<' is written with ASCII digits.>">>,
                "format", "low",
                <<"paragraph", idx + 1>>,
                _paragraph_snippet(paras, idx),
                "use full-width digits",
                Some(AutoFix("full-width digits", original, replacement)))

\* the first loop of check_claim_notation from the paragraph of index idx on
RECURSIVE NotationLoop(_, _)
NotationLoop(paras, idx) ==
    IF idx >= Len(paras) THEN <<>>
    ELSE LET ms == NotationMatches(paras[idx + 1], 1)
         IN  [k \in 1..Len(ms) |-> NotationFinding(paras, idx, ms[k])]
             \o NotationLoop(paras, idx + 1)

\* the pattern of the second loop matches from j: a kanji or kana, "(", one or
\* more characters other than ")", and ")"
ParenAt(s, j) ==
    /\ j + 1 <= Len(s)
    /\ IsKanjiOrKana(s[j])
    /\ s[j + 1] = "("
    /\ \E e \in (j + 3)..Len(s) : s[e] = ")" /\ \A k \in (j + 2)..(e - 1) : s[k] # ")"

\* parentheses_pattern.finditer(para) from place i on: each match with its
\* start, the search going on after the match
RECURSIVE ParenMatches(_, _)
ParenMatches(s, i) ==
    LET starts == {j \in i..Len(s) : ParenAt(s, j)}
    IN  IF starts = {} THEN <<>>
        ELSE LET j == Least(starts)
                 e == Find(s, j + 2, ")")
             IN  <<[start |-> j - 1, text |-> SubSeq(s, j, e)]>> \o ParenMatches(s, e + 1)

ParenFinding(paras, idx, m) ==
    LET original == m.text
        replacement == str_replace(str_replace(original, <<"(">>, <<"FLP">>), <<")">>, <<"FRP">>)
    IN  Finding(Id_FMT_PAREN \o Fmt03d(idx) \o <<"-">> \o StrOf(m.start),
                <<"parentheses">>,
                <<"<ASCII parentheses are used in Japanese text.>">>,
                "format", "low",
                <<"paragraph", idx + 1>>,
                _paragraph_snippet(paras, idx),
                "use full-width parentheses",
                Some(AutoFix("full-width parentheses", original, replacement)))

\* the second loop of check_claim_notation from the paragraph of index idx on
RECURSIVE ParenLoop(_, _)
ParenLoop(paras, idx) ==
    IF idx >= Len(paras) THEN <<>>
    ELSE LET ms == ParenMatches(paras[idx + 1], 1)
         IN  [k \in 1..Len(ms) |-> ParenFinding(paras, idx, ms[k])] \o ParenLoop(paras, idx + 1)

check_claim_notation(paras) == NotationLoop(paras, 0) \o ParenLoop(paras, 0)

\* the table `patterns`: the text searched for without regard to case, the message
Placeholders ==
    << [pattern |-> <<"t", "o", "d", "o">>, message |-> <<"<the placeholder 'TODO' is left>">>],
       [pattern |-> <<"x", "x", "x", "x">>, message |-> <<"<the filler 'XXXX' is left>">>],
       [pattern |-> <<"?", "?", "?">>, message |-> <<"<question marks in a row>">>],
       [pattern |-> <<"YOU", "SHUU", "TADA">>, message |-> <<"<a 'to be fixed' note is left>">>] >>

PlaceholderFinding(paras, idx, message) ==
    Finding(Id_TMP \o Fmt03d(idx), <<"placeholder">>, message, "quality", "high",
            <<"paragraph", idx + 1>>, _paragraph_snippet(paras, idx), "write the final text",
            None)

\* the loops of check_placeholder_text from the paragraph of index idx on
RECURSIVE PlaceholderLoop(_, _)
PlaceholderLoop(paras, idx) ==
    IF idx >= Len(paras) THEN <<>>
    ELSE LET Found(pat) == Contains(Lower(paras[idx + 1]), pat.pattern)
             hits == SelectSeq(Placeholders, Found)
         IN  [k \in 1..Len(hits) |-> PlaceholderFinding(paras, idx, hits[k].message)]
             \o PlaceholderLoop(paras, idx + 1)

check_placeholder_text(paras) == PlaceholderLoop(paras, 0)

(***************************************************************************)
(* State.                                                                  *)
(***************************************************************************)
VARIABLES
    fs,             \* the file system: path -> file
    obj,            \* the DocxDocument: "none" (not constructed), "open", "failed"
    self_path,      \* self.path
    zip_infos,      \* self._zip_infos
    zip_content,    \* self._zip_content
    tree,           \* self._tree
    cache,          \* self._paragraph_cache
    ret,            \* the last call of a container operation and what it returned
    src,            \* history: the file at self.path as __init__ read it
    seen,           \* history: what paragraphs returned last, None after a mutation
    saved,          \* history: path -> how the last save to it ended
    rt,             \* the round-trip driver: its position, arguments and readings
    eng,            \* run_checks: its position, the findings so far, its result
    cli             \* main: its position, arguments and locals, what it left behind

cvars == <<fs, obj, self_path, zip_infos, zip_content, tree, cache>>
hvars == <<ret, src, seen, saved>>
vars == <<cvars, hvars, rt, eng, cli>>

InPath == "in.docx"
OutPath == "out.docx"
Paths == {InPath, OutPath}

Alphabet == {"a", "b"}

NoRet == [op |-> "none"]
NoRT == [pc |-> "off"]
NoEng == [pc |-> "off"]
NoCli == [pc |-> "off"]

(***************************************************************************)
(* DocxDocument.__init__(path)                                             *)
(***************************************************************************)
OpenFails(p, error) ==
    /\ obj' = "failed"
    /\ ret' = [op |-> "open", raised |-> error]
    /\ UNCHANGED <<fs, self_path, zip_infos, zip_content, tree, cache, src>>

DocxDocument(p) ==
    /\ obj = "none"
    /\ IF fs[p].kind = "missing" THEN OpenFails(p, "FileNotFoundError")
       ELSE IF fs[p].kind = "notzip" THEN OpenFails(p, "BadZipFile")
       ELSE LET infos == ReadInfos(fs[p].entries, 1, <<>>)
                content == ReadContent(fs[p].entries, 1, <<>>)
            IN  IF ~DictHas(content, DocEntry) THEN OpenFails(p, "ValueError")
                ELSE IF ~ET_parses(DictGet(content, DocEntry))
                     THEN OpenFails(p, "ParseError")
                ELSE /\ obj' = "open"
                     /\ self_path' = p
                     /\ zip_infos' = infos
                     /\ zip_content' = content
                     /\ tree' = ET_fromstring(DictGet(content, DocEntry))
                     /\ cache' = None
                     /\ src' = fs[p]
                     /\ ret' = [op |-> "open", raised |-> "no"]
                     /\ UNCHANGED fs
    /\ UNCHANGED <<seen, saved>>

Open(p) == DocxDocument(p) /\ UNCHANGED <<rt, eng, cli>>

(***************************************************************************)
(* DocxDocument.paragraphs, DocxDocument.full_text                         *)
(***************************************************************************)
paragraphs ==
    /\ obj = "open"
    /\ cache' = CacheAfterRead(tree, cache)
    /\ ret' = [op |-> "paragraphs", val |-> cache'[1]]
    /\ seen' = Some(cache'[1])
    /\ UNCHANGED <<fs, obj, self_path, zip_infos, zip_content, tree, src, saved>>

Paragraphs == paragraphs /\ UNCHANGED <<rt, eng, cli>>

full_text ==
    /\ obj = "open"
    /\ cache' = CacheAfterRead(tree, cache)
    /\ ret' = [op |-> "full_text", val |-> FullTextOf(cache'[1])]
    /\ UNCHANGED <<fs, obj, self_path, zip_infos, zip_content, tree, src, seen, saved>>

FullText == full_text /\ UNCHANGED <<rt, eng, cli>>

(***************************************************************************)
(* DocxDocument.replace_text(old, new)                                     *)
(***************************************************************************)
replace_text(old, new) ==
    /\ obj = "open"
    /\ LET changed == ReplaceChanged(tree.runs, old)
       IN  /\ tree' = [tree EXCEPT !.runs = ReplaceResult(tree.runs, old, new)]
           /\ cache' = CacheAfterReplace(cache, changed)
           /\ ret' = [op |-> "replace_text", val |-> changed]
    /\ seen' = IF tree' # tree THEN None ELSE seen
    /\ UNCHANGED <<fs, obj, self_path, zip_infos, zip_content, src, saved>>

ReplaceText(old, new) == replace_text(old, new) /\ UNCHANGED <<rt, eng, cli>>

(***************************************************************************)
(* DocxDocument.save(output_path).  written = -1: the call fails before    *)
(* the output file is created; 0 <= written < number of entries: it fails  *)
(* after that many entries (the archive is closed with them); otherwise it *)
(* succeeds.  The path is made absolute, so the input path given again is  *)
(* the input file.                                                         *)
(***************************************************************************)
SaveContent(content, xml_bytes) == DictSet(content, DocEntry, xml_bytes)

save(output_path, written) ==
    /\ obj = "open"
    /\ LET content == SaveContent(zip_content, ET_tostring(tree))
           entries == SavedEntries(zip_infos, content)
       IN  /\ zip_content' = content
           /\ written \in -1..Len(entries)
           /\ fs' = IF written = -1 THEN fs
                    ELSE [fs EXCEPT ![output_path] = ZipFileOf(SubSeq(entries, 1, written))]
           /\ saved' = IF written = -1 THEN saved
                       ELSE [saved EXCEPT ![output_path] =
                                IF written = Len(entries) THEN "ok" ELSE "partial"]
           /\ ret' = [op |-> "save",
                      raised |-> IF written = Len(entries) THEN "no" ELSE "OSError"]
    /\ UNCHANGED <<obj, self_path, zip_infos, tree, cache, src, seen>>

Save(output_path) ==
    /\ \E written \in -1..Len(zip_content) : save(output_path, written)
    /\ UNCHANGED <<rt, eng, cli>>

(***************************************************************************)
(* SpecContainer: one container, opened from a file of the pool, under any *)
(* interleaving of its operations.                                         *)
(***************************************************************************)
T_TwoRuns == Tree(<< <<"a">>, <<"b">> >>, << <<1, 2>> >>)
T_EmptyPara == Tree(<< <<>>, <<"a", "b">> >>, << <<1>>, <<2>> >>)
T_Nested == Tree(<< <<"a">>, <<"b">> >>, << <<2>>, <<1, 2>> >>)
T_Loose == Tree(<< <<"b">>, <<"a">> >>, << <<2>> >>)

TreePool == {T_TwoRuns, T_EmptyPara, T_Nested, T_Loose}

Docx(t) ==
    ZipFileOf(<< Entry("[Content_Types].xml", Raw(1), Meta(1, 1)),
                 Entry(DocEntry, Xml("src", t), Meta(2, 1)),
                 Entry("word/styles.xml", Raw(2), Meta(1, 0)) >>)

DocxTwice(t) ==
    ZipFileOf(<< Entry("word/styles.xml", Raw(1), Meta(1, 1)),
                 Entry(DocEntry, Xml("src", t), Meta(2, 1)),
                 Entry("word/styles.xml", Raw(2), Meta(2, 0)) >>)

DocxNoText == ZipFileOf(<< Entry("[Content_Types].xml", Raw(1), Meta(1, 1)) >>)
DocxBadXml == ZipFileOf(<< Entry(DocEntry, Raw(3), Meta(1, 1)) >>)

FilePool ==
    {Docx(t) : t \in TreePool} \cup {DocxTwice(T_TwoRuns), DocxNoText, DocxBadXml, NotZipFile}

\* the old/new arguments of replace_text: the empty string and the one-letter strings
Args == {<<>>} \cup {<<c>> : c \in Alphabet}

InitContainerState ==
    /\ obj = "none"
    /\ self_path = ""
    /\ zip_infos = <<>>
    /\ zip_content = <<>>
    /\ tree = EmptyTree
    /\ cache = None
    /\ ret = NoRet
    /\ src = MissingFile
    /\ seen = None
    /\ saved = [p \in Paths |-> "none"]

InitContainer ==
    /\ \E f \in FilePool : fs = [p \in Paths |-> IF p = InPath THEN f ELSE MissingFile]
    /\ InitContainerState
    /\ rt = NoRT
    /\ eng = NoEng
    /\ cli = NoCli

NextContainer ==
    \/ \E p \in Paths : Open(p)
    \/ Paragraphs
    \/ FullText
    \/ \E old \in Args, new \in Args : ReplaceText(old, new)
    \/ \E q \in Paths : Save(q)

SpecContainer == InitContainer /\ [][NextContainer]_vars

(***************************************************************************)
(* Claims about the container.                                             *)
(***************************************************************************)
\* the entries of file f that are named n
EntriesNamed(f, n) == {i \in 1..Len(f.entries) : f.entries[i].name = n}

\* the names of the archive read at open, the text layer apart
OtherNames == {src.entries[i].name : i \in 1..Len(src.entries)} \ {DocEntry}

\* C1: whatever replace_text calls were made, every entry other than
\* word/document.xml keeps in the container the bytes read at open, and every
\* archive a save has completed holds, for each of them, one entry with those
\* bytes (and no entry besides them and the text layer).
C1_OtherEntriesIdentical ==
    obj = "open" =>
        /\ \A n \in OtherNames :
              /\ DictHas(zip_content, n)
              /\ DictGet(zip_content, n) = ZipRead(src.entries, n)
        /\ \A q \in Paths : saved[q] = "ok" =>
              /\ \A n \in OtherNames :
                    /\ Cardinality(EntriesNamed(fs[q], n)) = 1
                    /\ ZipRead(fs[q].entries, n) = ZipRead(src.entries, n)
              /\ \A i \in 1..Len(fs[q].entries) :
                    fs[q].entries[i].name \in OtherNames \cup {DocEntry}

\* a save completed after a replace_text changed the text, for an archive with
\* other entries
C1_Witness ==
    /\ obj = "open"
    /\ saved[OutPath] = "ok"
    /\ OtherNames # {}
    /\ ZipRead(fs[OutPath].entries, DocEntry).tree # ZipRead(src.entries, DocEntry).tree

\* C2: the file at the input path is the one the container was opened from,
\* whatever replace_text and save calls were made and whatever the output path.
C2_InputNeverModified == obj = "open" => fs[self_path] = src

\* C4: replace_text returns true exactly when the text of some run differs
\* after the call, and the cache is cleared exactly then.
C4_ReturnsWhetherChanged ==
    [][(obj = "open" /\ ret'.op = "replace_text") =>
          /\ ret'.val <=> (tree'.runs # tree.runs)
          /\ cache' = IF tree'.runs # tree.runs THEN None ELSE cache]_vars

\* the text of block j: all its runs concatenated
BlockText(t, j) == Concat([k \in 1..Len(t.blocks[j]) |-> t.runs[t.blocks[j][k]]])

\* one string per block element, in document order
AllBlockTexts(t) == [j \in 1..Len(t.blocks) |-> BlockText(t, j)]

\* s without its empty strings
RECURSIVE NonEmpty(_)
NonEmpty(s) ==
    IF s = <<>> THEN <<>>
    ELSE IF Head(s) = <<>> THEN NonEmpty(Tail(s))
    ELSE <<Head(s)>> \o NonEmpty(Tail(s))

\* C5 as stated: paragraphs() returns one string per block element of the
\* current tree.
C5_OnePerBlock ==
    (obj = "open" /\ ret.op = "paragraphs") => ret.val = AllBlockTexts(tree)

\* C5, amended: paragraphs() returns the texts of the block elements of the
\* current tree that have text, in document order; a filled cache holds that
\* list (it is never stale); and a paragraphs() call that follows another with
\* no mutation between them returns the same list.
C5_ParagraphsCurrent ==
    /\ [](obj = "open" =>
            /\ ret.op = "paragraphs" => ret.val = NonEmpty(AllBlockTexts(tree))
            /\ cache # None => cache[1] = NonEmpty(AllBlockTexts(tree)))
    /\ [][(obj = "open" /\ ret'.op = "paragraphs" /\ seen # None) =>
            /\ ret'.val = seen[1]
            /\ Len(ret'.val) = Len(seen[1])]_vars

\* paragraphs() read, the text then changed by replace_text, paragraphs() read
\* again from a tree that has a block without text
C5_Witness ==
    /\ obj = "open"
    /\ ret.op = "paragraphs"
    /\ tree # ZipRead(src.entries, DocEntry).tree
    /\ Len(ret.val) < Len(tree.blocks)

(***************************************************************************)
(* SpecRoundTrip: replace_text(old, new) and then replace_text(new, old),  *)
(* with full_text read before and after, on a container opened from a      *)
(* document of one block of two runs or of two blocks of one run each.     *)
(***************************************************************************)
RTTrees ==
    {Tree(<<r1, r2>>, b) :
        r1 \in SeqsUpTo(Alphabet, MaxRunLen), r2 \in SeqsUpTo(Alphabet, MaxRunLen),
        b \in { << <<1, 2>> >>, << <<1>>, <<2>> >> }}

Pats == SeqsUpTo(Alphabet, MaxPatLen)

InitRoundTrip ==
    /\ \E t \in RTTrees : fs = [p \in Paths |-> IF p = InPath THEN Docx(t) ELSE MissingFile]
    /\ InitContainerState
    /\ \E old \in Pats, new \in Pats :
          rt = [pc |-> "start", old |-> old, new |-> new, tree0 |-> EmptyTree,
                tree1 |-> EmptyTree, text0 |-> <<>>, text1 |-> <<>>]
    /\ eng = NoEng
    /\ cli = NoCli

RTOpen ==
    /\ rt.pc = "start"
    /\ DocxDocument(InPath)
    /\ rt' = [rt EXCEPT !.pc = "opened"]
    /\ UNCHANGED <<eng, cli>>

RTReadBefore ==
    /\ rt.pc = "opened"
    /\ full_text
    /\ rt' = [rt EXCEPT !.pc = "read", !.text0 = ret'.val, !.tree0 = tree]
    /\ UNCHANGED <<eng, cli>>

RTReplace ==
    /\ rt.pc = "read"
    /\ replace_text(rt.old, rt.new)
    /\ rt' = [rt EXCEPT !.pc = "replaced", !.tree1 = tree']
    /\ UNCHANGED <<eng, cli>>

RTReplaceBack ==
    /\ rt.pc = "replaced"
    /\ replace_text(rt.new, rt.old)
    /\ rt' = [rt EXCEPT !.pc = "restored"]
    /\ UNCHANGED <<eng, cli>>

RTReadAfter ==
    /\ rt.pc = "restored"
    /\ full_text
    /\ rt' = [rt EXCEPT !.pc = "done", !.text1 = ret'.val]
    /\ UNCHANGED <<eng, cli>>

NextRoundTrip == RTOpen \/ RTReadBefore \/ RTReplace \/ RTReplaceBack \/ RTReadAfter

SpecRoundTrip == InitRoundTrip /\ [][NextRoundTrip]_vars

\* the places where s occurs in text
Occurrences(text, s) == {i \in 1..(Len(text) - Len(s) + 1) : MatchAt(text, s, i)}

\* the place in the paragraph text where run k of block b starts, less one
RECURSIVE RunOffset(_, _, _)
RunOffset(runs, b, k) ==
    IF k = 1 THEN 0 ELSE RunOffset(runs, b, k - 1) + Len(runs[b[k - 1]])

\* no occurrence of s in the text of a block of t lies across two runs
NoCrossing(t, s) ==
    \A j \in 1..Len(t.blocks) :
        \A i \in Occurrences(BlockText(t, j), s) :
            \E k \in 1..Len(t.blocks[j]) :
                LET off == RunOffset(t.runs, t.blocks[j], k)
                IN  /\ off < i
                    /\ i + Len(s) - 1 <= off + Len(t.runs[t.blocks[j][k]])

\* old and new do not overlap across run boundaries, before and between the calls
RTNonCrossing ==
    /\ NoCrossing(rt.tree0, rt.old)
    /\ NoCrossing(rt.tree0, rt.new)
    /\ NoCrossing(rt.tree1, rt.old)
    /\ NoCrossing(rt.tree1, rt.new)

\* C3 as stated: for non-crossing old and new, replace_text(old, new) and then
\* replace_text(new, old) leave full_text() as it was.
C3_RoundTrip == (rt.pc = "done" /\ RTNonCrossing) => rt.text1 = rt.text0

\* the places in text.replace(old, new) where the copies of new start
RECURSIVE WrittenFrom(_, _, _, _, _)
WrittenFrom(text, old, new, i, out) ==
    IF i > Len(text) THEN {}
    ELSE IF MatchAt(text, old, i)
         THEN {out} \cup WrittenFrom(text, old, new, i + Len(old), out + Len(new))
    ELSE WrittenFrom(text, old, new, i + 1, out + 1)

Written(text, old, new) ==
    IF old = <<>> \/ ~Contains(text, old) THEN {} ELSE WrittenFrom(text, old, new, 1, 1)

\* what replace_text(old, new) is to make of a run
Replaced(text, old, new) ==
    IF old = <<>> \/ ~Contains(text, old) THEN text ELSE str_replace(text, old, new)

\* in every run, new occurs after the first call only where that call wrote it
OnlyWritten(t, old, new) ==
    \A i \in 1..Len(t.runs) :
        Occurrences(Replaced(t.runs[i], old, new), new) = Written(t.runs[i], old, new)

\* C3, amended: for non-crossing old and new, with new not empty and occurring
\* in the runs after the first call only where that call wrote it,
\* replace_text(old, new) and then replace_text(new, old) leave full_text() as
\* it was.
C3_RoundTripWritten ==
    (rt.pc = "done" /\ RTNonCrossing /\ rt.new # <<>>
        /\ OnlyWritten(rt.tree0, rt.old, rt.new)) => rt.text1 = rt.text0

\* a round trip that changed the text and changed it back
C3_Witness ==
    /\ rt.pc = "done"
    /\ RTNonCrossing
    /\ rt.new # <<>>
    /\ OnlyWritten(rt.tree0, rt.old, rt.new)
    /\ rt.tree1 # rt.tree0
    /\ Len(rt.old) # Len(rt.new)
    /\ rt.text1 = rt.text0

(***************************************************************************)
(* run_checks(doc)                                                         *)
(***************************************************************************)
\* CHECKS: the registry, by function name
CHECKS ==
    <<"check_required_sections", "check_enablement", "check_support_requirement",
      "check_claim_numbering", "check_claim_notation", "check_placeholder_text",
      "check_figure_consistency">>

\* check(doc) for the i-th analyzer of the registry, doc.paragraphs being paras
Check(i, paras) ==
    CASE i = 1 -> check_required_sections(paras)
      [] i = 2 -> check_enablement(paras)
      [] i = 3 -> check_support_requirement(paras)
      [] i = 4 -> check_claim_numbering(paras)
      [] i = 5 -> check_claim_notation(paras)
      [] i = 6 -> check_placeholder_text(paras)
      [] i = 7 -> check_figure_consistency(paras)

\* the texts of the exceptions an analyzer may raise
ExcTexts == {"<exception text 1>", "<exception text 2>"}

\* the finding run_checks makes of an exception of the i-th analyzer
ErrorFinding(i, exc) ==
    Finding(Id_ERR \o <<CHECKS[i]>>, <<"check error">>,
            <<CHECKS[i], "<raised an error:>", " ", exc>>,
            "system", "high", <<"-">>, <<>>, "contact the developer", None)

\* (a run_checks that keeps what a raising analyzer had found)
AfterRaiseKeepPartial(findings, partial, err) == findings \o partial \o <<err>>

\* `findings` after an analyzer raised, having found `partial` by then: extend is
\* not reached, the except clause appends err
AfterRaise(findings, partial, err) == Append(findings, err)

\* `findings` after an analyzer returned `found`
AfterReturn(findings, found) == findings \o found

\* the loop that fills `unique`, from the i-th finding on
RECURSIVE UniqueFrom(_, _, _)
UniqueFrom(findings, i, unique) ==
    IF i > Len(findings) THEN unique
    ELSE UniqueFrom(findings, i + 1,
                    DictSet(unique, <<findings[i].identifier, findings[i].message>>, findings[i]))

\* list(unique.values())
Deduplicate(findings) == DictValues(UniqueFrom(findings, 1, <<>>))

\* (a turn of the loop in which the analyzer puts full-width digits as it reads)
RunCheckFixing ==
    /\ eng.pc = "checks"
    /\ eng.ci <= Len(CHECKS)
    /\ obj = "open"
    /\ tree' = [tree EXCEPT !.runs = ReplaceResult(tree.runs, <<"1">>, <<"F1">>)]
    /\ cache' = Some(ComputeParagraphs(tree'))
    /\ eng' = [eng EXCEPT !.ci = @ + 1, !.raw = AfterReturn(@, Check(eng.ci, cache'[1]))]
    /\ UNCHANGED <<fs, obj, self_path, zip_infos, zip_content, hvars, rt, cli>>

\* one turn of the loop over CHECKS: the analyzer returns, or (an unexpected
\* error, while the budget of faults lasts) raises at some point of its work,
\* before or after it read doc.paragraphs
RunCheck ==
    /\ eng.pc = "checks"
    /\ eng.ci <= Len(CHECKS)
    /\ obj = "open"
    /\ \/ /\ cache' = CacheAfterRead(tree, cache)
          /\ eng' = [eng EXCEPT !.ci = @ + 1,
                                !.raw = AfterReturn(@, Check(eng.ci, cache'[1]))]
       \/ /\ eng.faults > 0
          /\ \E exc \in ExcTexts, read \in BOOLEAN :
                LET found == Check(eng.ci, ComputeParagraphs(tree))
                IN  \E n \in 0..Len(found) :
                       /\ cache' = IF read THEN CacheAfterRead(tree, cache) ELSE cache
                       /\ eng' = [eng EXCEPT !.ci = @ + 1,
                                             !.faults = @ - 1,
                                             !.raised = @ \cup {eng.ci},
                                             !.raw = AfterRaise(@, SubSeq(found, 1, n),
                                                                ErrorFinding(eng.ci, exc))]
    /\ UNCHANGED <<fs, obj, self_path, zip_infos, zip_content, tree, hvars, rt, cli>>

\* the end of run_checks: the findings without duplicates are returned
ReturnFindings ==
    /\ eng.pc = "checks"
    /\ eng.ci > Len(CHECKS)
    /\ eng' = [eng EXCEPT !.pc = "returned", !.findings = Deduplicate(eng.raw)]
    /\ UNCHANGED <<cvars, hvars, rt, cli>>

(***************************************************************************)
(* The documents of the check engine and of the command line.              *)
(***************************************************************************)
\* a document of one run per paragraph
DocOf(paras) == Tree(paras, [i \in 1..Len(paras) |-> <<i>>])

\* a paragraph that names every section and an embodiment and the effects
P_Head == Kw_Claims \o Kw_Description \o Kw_Means \o Kw_Drawings \o Kw_Embodiment \o Kw_Effect
\* the same without the brief description of the drawings
P_HeadNoDrawings == Kw_Claims \o Kw_Description \o Kw_Means \o Kw_Example \o Kw_EffectOfInvention

P_Claim(digits, body) == ClaimMarker \o digits \o body

D_123 == DocOf(<<P_Head, P_Claim(<<"F1">>, <<>>), P_Claim(<<"F2">>, <<>>), P_Claim(<<"F3">>, <<>>)>>)
D_132 == DocOf(<<P_Head, P_Claim(<<"F1">>, <<>>), P_Claim(<<"F3">>, <<>>), P_Claim(<<"F2">>, <<>>)>>)
D_13 == DocOf(<<P_Head, P_Claim(<<"LB">>, <<>>), P_Claim(<<"F1">>, <<>>), P_Claim(<<"0", "3">>, <<>>)>>)
D_Minimal == DocOf(<<Kw_Claims, P_Claim(<<"F1">>, <<>>), P_Claim(<<"F3">>, <<>>)>>)
D_Empty == DocOf(<<>>)
D_Same == DocOf(<<P_Head, P_Claim(<<"F1">>, <<" ", "a", "b", "c">>),
                  P_Claim(<<"FSP", "F1">>, <<" ", "A", "B", "C", " ">>)>>)
D_Described == DocOf(<<P_Head \o <<"SOU", "CHI">>,
                       <<"LB">> \o P_Claim(<<"F1">>, <<"RB", "SOU", "CHI", "LQ", "a", "RQ">>)>>)
D_Todo == DocOf(<<P_Head, <<"T", "o", "d", "o", " ", "X", "X", "X", "X">>>>)
D_Ascii == DocOf(<<P_Head, P_Claim(<<"1">>, <<>>)>>)
D_AsciiTwice == DocOf(<<P_Head, P_Claim(<<"1">>, <<"NO">> \o P_Claim(<<"1">>, <<>>))>>)
D_Prefix == DocOf(<<P_Head, P_Claim(<<"1">>, <<>>), P_Claim(<<"F2">>, <<"NO">> \o P_Claim(<<"1", "2">>, <<>>))>>)
D_Split == Tree(<<P_Head, <<"SEI", "KYU">>, <<"KOU", "1">>>>, << <<1>>, <<2, 3>> >>)
D_TwoFixes == DocOf(<<P_Head, P_Claim(<<"1">>, <<"NO", "CHI", "(", "a", ")">>)>>)
D_Nested == DocOf(<<P_Head, <<"CHI", "(">> \o P_Claim(<<"1">>, <<")">>)>>)
D_TwoParas == DocOf(<<P_Head, P_Claim(<<"1">>, <<>>), P_Claim(<<"1">>, <<>>)>>)
D_Paren == DocOf(<<P_Head, <<"CHI", "(", "a", ")", "NO", "(", ")">>>>)
D_Figure == DocOf(<<P_HeadNoDrawings, <<"ZU", "1">>>>)
D_NoFigure == DocOf(<<P_HeadNoDrawings, <<"ZU", "MEN">>>>)
D_FigureDescribed == DocOf(<<P_Head, <<"ZU", "F2">>, <<"?", "?", "?">>>>)

D_FigureWide == DocOf(<<P_HeadNoDrawings, <<"NO", "ZU", "F1">>>>)
D_FigureTwice == DocOf(<<P_HeadNoDrawings, <<"ZU", "F1", "NO", "ZU", "2", "3">>, <<"ZU", "1">>>>)
D_FigureAcross == DocOf(<<P_HeadNoDrawings, <<"ZU">>, <<"1">>>>)
D_MarkerAcross ==
    DocOf(<<P_HeadNoDrawings, <<"ZU", "MEN", "NO", "KAN", "TAN">>, <<"NA", "SETSU", "MEI">>,
            <<"ZU", "9">>>>)

D_134 == DocOf(<<P_Head, P_Claim(<<"F1">>, <<>>), P_Claim(<<"F3">>, <<>>), P_Claim(<<"F4">>, <<>>)>>)
D_1223 == DocOf(<<P_Head, P_Claim(<<"F1">>, <<>>), P_Claim(<<"F2">>, <<>>), P_Claim(<<"F2">>, <<>>),
                  P_Claim(<<"F3">>, <<>>)>>)
D_23 == DocOf(<<P_Head, P_Claim(<<"F2">>, <<>>), P_Claim(<<"F3">>, <<>>)>>)

\* n times the character c
Rep(c, n) == [i \in 1..n |-> c]

\* a placeholder in a paragraph of just SnippetMax characters, of three more, and
\* of more that white space brings down to fewer
D_Exact == DocOf(<<P_Head, <<"?", "?", "?">> \o Rep("a", SnippetMax - 3)>>)
D_Long == DocOf(<<P_Head, <<"?", "?", "?">> \o Rep("a", SnippetMax)>>)
D_Spaced == DocOf(<<P_Head, <<" ", "?", "?", "?", " ", "FSP", "TAB">> \o Rep("a", SnippetMax - 5)
                            \o <<"NL", " ">>>>)

DocPool ==
    {D_Exact, D_Long, D_Spaced, D_134, D_1223, D_23, D_123, D_132, D_13, D_Minimal, D_Empty, D_Same, D_Described, D_Todo, D_Ascii,
     D_AsciiTwice, D_Prefix, D_Split, D_TwoFixes, D_Nested, D_TwoParas, D_Paren, D_Figure, D_NoFigure, D_FigureDescribed,
     D_FigureWide, D_FigureTwice, D_FigureAcross, D_MarkerAcross}

\* the container as DocxDocument(InPath) leaves it for the file f
OpenedFrom(f) ==
    /\ obj = "open"
    /\ self_path = InPath
    /\ zip_infos = ReadInfos(f.entries, 1, <<>>)
    /\ zip_content = ReadContent(f.entries, 1, <<>>)
    /\ tree = ET_fromstring(ZipRead(f.entries, DocEntry))
    /\ cache = None
    /\ ret = [op |-> "open", raised |-> "no"]
    /\ src = f
    /\ seen = None
    /\ saved = [p \in Paths |-> "none"]

\* run_checks at its start, with the number of analyzer faults that may occur
EngineStart(faults) ==
    [pc |-> "checks", ci |-> 1, raw |-> <<>>, raised |-> {}, faults |-> faults,
     findings |-> <<>>]

(***************************************************************************)
(* SpecEngine: run_checks on a document of the pool; any analyzers raise.  *)
(***************************************************************************)
InitEngine ==
    /\ \E t \in DocPool :
          /\ fs = [p \in Paths |-> IF p = InPath THEN Docx(t) ELSE MissingFile]
          /\ OpenedFrom(Docx(t))
    /\ rt = NoRT
    /\ eng = EngineStart(Len(CHECKS))
    /\ cli = NoCli

NextEngine == RunCheck \/ ReturnFindings

SpecEngine == InitEngine /\ [][NextEngine]_vars

(***************************************************************************)
(* Properties of the claim-numbering check and of run_checks (SpecEngine). *)
(***************************************************************************)
\* the numbers of the claims of the document, in document order
ClaimNumbers ==
    LET claims == _extract_claims(ComputeParagraphs(tree))
    IN  [k \in 1..Len(claims) |-> claims[k].number]

\* check_claim_numbering has returned its findings to run_checks
NumberingReturned == eng.pc # "off" /\ eng.ci > 4 /\ 4 \notin eng.raised

\* the findings of check_claim_numbering among those collected
NumberingFindings ==
    LET IsNumbering(f) == UpTo(f.identifier, Len(Id_NUM)) = Id_NUM
    IN  SelectSeq(eng.raw, IsNumbering)

NumberingMessage(number, expected) ==
    <<"<claim>", number, "<differs from the expected order>", " ", expected, " ", "<.>">>

\* C6 as stated: claims numbered [1,2,3] give no numbering finding; claims numbered
\* [1,3,2] give exactly one, for claim 3, and claim 2 is not flagged.
C6_OneFindingFor132 ==
    NumberingReturned =>
        /\ ClaimNumbers = <<1, 2, 3>> => NumberingFindings = <<>>
        /\ ClaimNumbers = <<1, 3, 2>> =>
              /\ Len(NumberingFindings) = 1
              /\ NumberingFindings[1].location = <<"claim", 3>>

\* C6: claims numbered [1,2,3] give no numbering finding; claims numbered [1,3,2]
\* give exactly two: the first for claim 3 against the expected number 2, the second
\* for claim 2 against the expected number 4, to which the mismatch of claim 3 has
\* reset the expectation.
C6_TwoFindingsFor132 ==
    NumberingReturned =>
        /\ ClaimNumbers = <<1, 2, 3>> => NumberingFindings = <<>>
        /\ ClaimNumbers = <<1, 3, 2>> =>
              /\ Len(NumberingFindings) = 2
              /\ NumberingFindings[1].location = <<"claim", 3>>
              /\ NumberingFindings[1].message = NumberingMessage("3", "2")
              /\ NumberingFindings[2].location = <<"claim", 2>>
              /\ NumberingFindings[2].message = NumberingMessage("2", "4")

C6_Witness ==
    /\ NumberingReturned
    /\ ClaimNumbers = <<1, 3, 2>>
    /\ Len(NumberingFindings) = 2

\* f is the one finding run_checks makes of an exception of the i-th analyzer
IsErrorOf(f, i) ==
    /\ f.category = "system"
    /\ f.severity = "high"
    /\ f.identifier = Id_ERR \o <<CHECKS[i]>>
    /\ f.message # <<>> /\ f.message[1] = CHECKS[i]

\* raw, from position pos on, is what the analyzers i, i+1, ... up to the one
\* before eng.ci have contributed
RECURSIVE Contributed(_, _, _)
Contributed(raw, pos, i) ==
    IF i >= eng.ci THEN pos = Len(raw) + 1
    ELSE IF i \in eng.raised
         THEN /\ pos <= Len(raw)
              /\ IsErrorOf(raw[pos], i)
              /\ Contributed(raw, pos + 1, i + 1)
    ELSE LET returned == Check(i, ComputeParagraphs(tree))
         IN  /\ pos + Len(returned) - 1 <= Len(raw)
             /\ SubSeq(raw, pos, pos + Len(returned) - 1) = returned
             /\ Contributed(raw, pos + Len(returned), i + 1)

\* C7: whatever analyzers raise, the findings run_checks collects are, analyzer by
\* analyzer in registry order, the findings a non-raising analyzer returned and,
\* for a raising analyzer, exactly one finding of category system and severity
\* high whose identifier and message name the analyzer, with none of its partial
\* findings; run_checks goes on to the next analyzer, and the list it returns
\* after the last one still holds exactly one such finding for each raising
\* analyzer.
C7_OneErrorFindingPerRaise ==
    eng.pc # "off" =>
        /\ Contributed(eng.raw, 1, 1)
        /\ eng.pc = "returned" =>
              /\ eng.ci = Len(CHECKS) + 1
              /\ \A i \in eng.raised :
                    Cardinality({k \in DOMAIN eng.findings : IsErrorOf(eng.findings[k], i)}) = 1

\* an analyzer that had findings raised, another one returned findings, and
\* run_checks has returned
C7_Witness ==
    /\ eng.pc = "returned"
    /\ 4 \in eng.raised /\ Check(4, ComputeParagraphs(tree)) # <<>>
    /\ 3 \notin eng.raised /\ Check(3, ComputeParagraphs(tree)) # <<>>
    /\ 1 \in eng.raised

KeyOf(f) == <<f.identifier, f.message>>

\* the index of the first finding of raw that carries the key
FirstWith(raw, key) == CHOOSE k \in DOMAIN raw :
                          /\ KeyOf(raw[k]) = key
                          /\ \A j \in 1..(k - 1) : KeyOf(raw[j]) # key

\* C8: the list run_checks returns holds, for every pair (identifier, message) of
\* the collected findings, exactly one finding with the pair; that finding is the
\* first collected finding carrying the pair, with all its fields; and the list
\* keeps the order of the first occurrences.
C8_FirstOccurrenceWins ==
    eng.pc = "returned" =>
        /\ \A k \in DOMAIN eng.raw :
              Cardinality({j \in DOMAIN eng.findings :
                              KeyOf(eng.findings[j]) = KeyOf(eng.raw[k])}) = 1
        /\ \A j \in DOMAIN eng.findings :
              /\ \E k \in DOMAIN eng.raw : KeyOf(eng.raw[k]) = KeyOf(eng.findings[j])
              /\ eng.findings[j] = eng.raw[FirstWith(eng.raw, KeyOf(eng.findings[j]))]
        /\ \A i, j \in DOMAIN eng.findings :
              i < j => FirstWith(eng.raw, KeyOf(eng.findings[i]))
                          < FirstWith(eng.raw, KeyOf(eng.findings[j]))

\* C9: no two findings of the list run_checks returns have the same identifier.
C9_IdentifiersUnique ==
    eng.pc = "returned" =>
        \A i, j \in DOMAIN eng.findings :
           i # j => eng.findings[i].identifier # eng.findings[j].identifier

(***************************************************************************)
(* _prompt, review_findings, generate_report, main                         *)
(***************************************************************************)
\* what input() meets: the end of the input, or a line
EndOfInput == [eof |-> TRUE, text |-> <<>>]
Line(text) == [eof |-> FALSE, text |-> text]

_prompt(in) == IF in.eof THEN <<>> ELSE in.text

\* the lines the user types when asked what to do with a finding
AnswerLines ==
    {<<>>, <<"y">>, <<" ", "Y", " ">>, <<"n">>, <<"s">>, <<"S", "TAB">>, <<"d">>, <<"i">>}

\* the lines the user types when asked for a note
NoteLines == {<<>>, <<" ">>, <<" ", "o", "k", " ">>}

Answers == {EndOfInput} \cup {Line(l) : l \in AnswerLines}
Notes == {EndOfInput} \cup {Line(l) : l \in NoteLines}

FindingResolution(finding, status, note, applied_fix) ==
    [finding |-> finding, status |-> status, note |-> note, applied_fix |-> applied_fix]

\* the status review_findings gives to a finding with an autofix, to one without
StatusWithAutofix(answer) ==
    IF answer = <<"y">> THEN "auto-fixed"
    ELSE IF answer = <<"s">> THEN "needs review"
    ELSE "manual"

StatusWithoutAutofix(answer) ==
    IF answer = <<"d">> THEN "manual"
    ELSE IF answer = <<"i">> THEN "on hold"
    ELSE "needs review"

\* (a review that records nothing for a finding put off)
ResolvedUnlessPutOff(resolutions, finding, status, note, applied_fix) ==
    IF status = "needs review" THEN resolutions
    ELSE Append(resolutions, FindingResolution(finding, status, note, applied_fix))

\* resolutions.append(FindingResolution(...)) at the end of the loop body
Resolved(resolutions, finding, status, note, applied_fix) ==
    Append(resolutions, FindingResolution(finding, status, note, applied_fix))

\* (a non-interactive mode that takes every autofix as applied)
NonInteractiveApplied(findings) ==
    [k \in 1..Len(findings) |->
        FindingResolution(findings[k], "needs review", <<>>, findings[k].autofix # None)]

\* the list main builds in non-interactive mode
NonInteractiveResolutions(findings) ==
    [k \in 1..Len(findings) |-> FindingResolution(findings[k], "needs review", <<>>, FALSE)]

\* (a save decision that goes by the fixes asked for, applied or not)
any_fix_asked(resolutions) == \E k \in DOMAIN resolutions : resolutions[k].status = "auto-fixed"

\* any(res.applied_fix for res in resolutions)
any_fix(resolutions) == \E k \in DOMAIN resolutions : resolutions[k].applied_fix

\* what generate_report writes of a resolution
ReportRow(res) ==
    [identifier |-> res.finding.identifier, status |-> res.status,
     applied_fix |-> res.applied_fix, note |-> res.note]

ReportOf(resolutions) == [k \in 1..Len(resolutions) |-> ReportRow(resolutions[k])]

\* the arguments of the command line; the path of the report is taken to be
\* none of the documents' paths
Arguments(input, output, non_interactive) ==
    [input |-> input, output |-> output, non_interactive |-> non_interactive]

ArgPool ==
    {Arguments(Some(InPath), None, FALSE), Arguments(Some(InPath), Some(InPath), FALSE),
     Arguments(Some(InPath), None, TRUE), Arguments(None, Some(OutPath), TRUE),
     Arguments(Some(OutPath), None, FALSE)}

\* what the user types when asked for the path, white space around it stripped
TypedPaths == {"", InPath}

\* the path of the revised document: --output, or <base>_revised.docx next to
\* the input, which OutPath stands for
output_docx(args) == IF args.output # None /\ args.output[1] # "" THEN args.output[1] ELSE OutPath

CliStart(args) ==
    [pc |-> "start", args |-> args, input_path |-> "", fi |-> 0, resolutions |-> <<>>,
     prompts |-> <<>>, apply_now |-> <<>>, report |-> None, exit |-> None]

Return(code) == [cli EXCEPT !.pc = "done", !.exit = Some(code)]

\* the prompt main issues for the path when the command line gives none
PathPrompt(args) == IF args.input = None THEN <<"path">> ELSE <<>>

\* the prompts of one turn of the loop of review_findings
ReviewPrompts(finding) == <<IF finding.autofix # None THEN "autofix" ELSE "status", "note">>

\* main up to the call of run_checks; the analyzers return on every document read
\* here, their raising is the matter of SpecEngine
MainOpen ==
    /\ cli.pc = "start"
    /\ \E typed \in IF cli.args.input = None THEN TypedPaths ELSE {cli.args.input[1]} :
          IF typed = ""
          THEN /\ cli' = [Return(1) EXCEPT !.input_path = typed, !.prompts = PathPrompt(cli.args)]
               /\ UNCHANGED <<cvars, hvars, eng>>
          ELSE IF fs[typed].kind = "missing"
               THEN /\ cli' = [Return(1) EXCEPT !.input_path = typed, !.prompts = PathPrompt(cli.args)]
                    /\ UNCHANGED <<cvars, hvars, eng>>
          ELSE /\ DocxDocument(typed)
               /\ IF obj' = "open"
                  THEN /\ cli' = [cli EXCEPT !.pc = "checks", !.input_path = typed,
                                            !.prompts = PathPrompt(cli.args)]
                       /\ eng' = EngineStart(0)
                  ELSE /\ cli' = [Return(1) EXCEPT !.input_path = typed, !.prompts = PathPrompt(cli.args)]
                       /\ UNCHANGED eng
    /\ UNCHANGED rt

\* the non-interactive branch of main
NonInteractive ==
    /\ cli.pc = "checks"
    /\ eng.pc = "returned"
    /\ cli.args.non_interactive
    /\ cli' = [cli EXCEPT !.pc = "decide",
                          !.resolutions = NonInteractiveResolutions(eng.findings)]
    /\ UNCHANGED <<cvars, hvars, rt, eng>>

\* the call of review_findings, up to its loop
CallReviewFindings ==
    /\ cli.pc = "checks"
    /\ eng.pc = "returned"
    /\ ~cli.args.non_interactive
    /\ cli' = [cli EXCEPT !.pc = IF eng.findings = <<>> THEN "decide" ELSE "review",
                          !.fi = 1, !.resolutions = <<>>]
    /\ UNCHANGED <<cvars, hvars, rt, eng>>

\* one turn of the loop of review_findings; after the last one it returns
ReviewFinding ==
    /\ cli.pc = "review"
    /\ cli.fi <= Len(eng.findings)
    /\ \E in1 \in Answers, in2 \in Notes :
          LET finding == eng.findings[cli.fi]
              answer == Lower(Strip(_prompt(in1)))
              note == Strip(_prompt(in2))
              status == IF finding.autofix # None THEN StatusWithAutofix(answer)
                        ELSE StatusWithoutAutofix(answer)
              applies == finding.autofix # None /\ answer = <<"y">>
          IN  /\ IF applies
                 THEN replace_text(finding.autofix[1].old, finding.autofix[1].new)
                 ELSE UNCHANGED <<cvars, hvars>>
              /\ cli' = [cli EXCEPT
                            !.resolutions = Resolved(@, finding, status, note,
                                                     IF applies THEN ret'.val ELSE FALSE),
                            !.prompts = @ \o ReviewPrompts(finding),
                            !.apply_now = Append(@, answer = <<"y">>),
                            !.fi = @ + 1,
                            !.pc = IF cli.fi = Len(eng.findings) THEN "decide" ELSE "review"]
    /\ UNCHANGED <<rt, eng>>

\* main after the resolutions: the revised document is saved, or not
SaveRevised ==
    /\ cli.pc = "decide"
    /\ IF any_fix(cli.resolutions)
       THEN \E written \in -1..Len(zip_content) :
               /\ save(output_docx(cli.args), written)
               /\ cli' = [cli EXCEPT !.pc = IF ret'.raised = "no" THEN "report" ELSE "raised"]
       ELSE /\ cli' = [cli EXCEPT !.pc = "report"]
            /\ UNCHANGED <<cvars, hvars>>
    /\ UNCHANGED <<rt, eng>>

\* generate_report and the return of main; the report cannot be written: OSError
GenerateReport ==
    /\ cli.pc = "report"
    /\ \E written \in BOOLEAN :
          cli' = IF written
                 THEN [Return(0) EXCEPT !.report = Some(ReportOf(cli.resolutions))]
                 ELSE [cli EXCEPT !.pc = "raised"]
    /\ UNCHANGED <<cvars, hvars, rt, eng>>

(***************************************************************************)
(* Spec: one run of the command line on a file of the pool.                *)
(***************************************************************************)
MainFiles == {Docx(t) : t \in DocPool} \cup {DocxBadXml}

Init ==
    /\ \E f \in MainFiles : fs = [p \in Paths |-> IF p = InPath THEN f ELSE MissingFile]
    /\ InitContainerState
    /\ rt = NoRT
    /\ eng = NoEng
    /\ \E args \in ArgPool : cli = CliStart(args)

Next ==
    \/ MainOpen
    \/ RunCheck
    \/ ReturnFindings
    \/ NonInteractive
    \/ CallReviewFindings
    \/ ReviewFinding
    \/ SaveRevised
    \/ GenerateReport

Spec == Init /\ [][Next]_vars

\* the loop of review_findings goes on: at each prompt the input gives a line or
\* ends, and nothing else of the loop body waits
FairSpec == Spec /\ WF_vars(ReviewFinding)

(***************************************************************************)
(* Properties of the resolution workflow (Spec, FairSpec).                 *)
(***************************************************************************)
\* review_findings is what gives the resolutions of this run
Interactive == cli.pc # "off" /\ ~cli.args.non_interactive

\* there are n resolutions and the k-th is of the k-th finding presented
InOrder(n) ==
    /\ Len(cli.resolutions) = n
    /\ \A k \in 1..n : cli.resolutions[k].finding = eng.findings[k]

ReviewOver == cli.pc \in {"decide", "report", "raised", "done"} /\ eng.pc = "returned"

\* C10: whatever the user answers, the end of the input included, the workflow
\* has, when it comes to the i-th finding, exactly one resolution for each of the
\* i-1 findings before it, in their order; it comes to its end; and it returns
\* exactly one resolution per finding, the i-th for the i-th finding presented.
C10_OneResolutionPerFinding ==
    /\ [](Interactive /\ cli.pc = "review" => InOrder(cli.fi - 1))
    /\ [](Interactive /\ ReviewOver => InOrder(Len(eng.findings)))
    /\ (Interactive /\ cli.pc = "review") ~> (ReviewOver /\ InOrder(Len(eng.findings)))

\* three findings were reviewed: the first put off, the fix of the second applied
C10_Witness ==
    /\ Interactive
    /\ cli.pc = "decide"
    /\ Len(eng.findings) = 3
    /\ InOrder(3)
    /\ cli.resolutions[1].status = "needs review"
    /\ cli.resolutions[2].applied_fix
    /\ cli.resolutions[3].note # <<>>

(***************************************************************************)
(* Properties of main (Spec).                                              *)
(***************************************************************************)
\* the text layer as __init__ parsed it from the file
TreeAtOpen == ET_fromstring(ZipRead(src.entries, DocEntry))

\* the file system as the run found it: the input file and nothing else
NothingWritten ==
    /\ \A p \in Paths : saved[p] = "none"
    /\ fs[OutPath] = MissingFile
    /\ obj = "open" => fs[InPath] = src

SomeFixApplied == \E k \in DOMAIN cli.resolutions : cli.resolutions[k].applied_fix

\* save was called on the path of the revised document and wrote the whole archive
RevisedSaved ==
    /\ ret.op = "save"
    /\ ret.raised = "no"
    /\ saved[output_docx(cli.args)] = "ok"
    /\ fs[output_docx(cli.args)].kind = "zip"

\* main is past the save decision
PastDecision == cli.pc \in {"report", "raised", "done"} /\ obj = "open"

\* C12 as stated: in every run that opened the document, the revised document is
\* saved exactly if some resolution records an applied fix, the report is
\* generated in both cases, and the run returns 0.
C12_AlwaysReportAndZero ==
    PastDecision =>
        /\ SomeFixApplied <=> RevisedSaved
        /\ cli.pc # "raised"
        /\ cli.pc = "done" => cli.report # None /\ cli.exit = Some(0)

\* C12: in every run that opened the document, save is called exactly if some
\* resolution records an applied fix; unless that save fails, the revised
\* document is written and the report is generated after it, and unless the
\* writing of the report fails, the run returns 0, with the report holding the
\* resolutions, also when there is no finding; a failed save or report ends the
\* run with the error, without report and without exit code.
C12_SaveIffFixApplied ==
    /\ PastDecision =>
          /\ SomeFixApplied <=> ret.op = "save"
          /\ ~SomeFixApplied => (\A p \in Paths : saved[p] = "none")
          /\ cli.pc \in {"report", "done"} => (SomeFixApplied <=> RevisedSaved)
          /\ cli.pc = "done" =>
                /\ cli.exit = Some(0)
                /\ cli.report = Some(ReportOf(cli.resolutions))
          /\ cli.pc = "raised" => cli.report = None /\ cli.exit = None
    /\ cli.pc \notin {"off", "done"} => cli.report = None

\* a fix was asked for and not applied, another one was applied: the revised
\* document and the report are written
C12_Witness ==
    /\ cli.pc = "done"
    /\ cli.exit = Some(0)
    /\ RevisedSaved
    /\ \E k \in DOMAIN cli.resolutions :
          cli.resolutions[k].status = "auto-fixed" /\ ~cli.resolutions[k].applied_fix
    /\ \E k \in DOMAIN cli.resolutions : cli.resolutions[k].applied_fix

(***************************************************************************)
(* Properties of the analyzers (SpecEngine).                               *)
(***************************************************************************)
\* the paragraphs the analyzers read
DocParagraphs == ComputeParagraphs(tree)

\* some paragraph refers to a figure: the figure character and a digit after it
RefersToFigure ==
    \E k \in DOMAIN DocParagraphs :
       \E i \in 1..(Len(DocParagraphs[k]) - 1) :
          /\ DocParagraphs[k][i] = "ZU"
          /\ DocParagraphs[k][i + 1] \in
                {"0", "1", "2", "3", "4", "5", "6", "7", "8", "9",
                 "F0", "F1", "F2", "F3", "F4", "F5", "F6", "F7", "F8", "F9"}

\* some paragraph holds the heading of the brief description of the drawings
HasDrawingsMarker ==
    \E k \in DOMAIN DocParagraphs : Contains(DocParagraphs[k], Kw_Drawings)

\* the number of collected findings with the identifier
CountOf(identifier) ==
    Cardinality({k \in DOMAIN eng.raw : eng.raw[k].identifier = identifier})

\* the number of collected findings of check_figure_consistency
FigureFindings ==
    Cardinality({k \in DOMAIN eng.raw : UpTo(eng.raw[k].identifier, Len(Id_FIG)) = Id_FIG})

\* both check_required_sections and check_figure_consistency have returned
SectionsAndFiguresReturned ==
    eng.pc # "off" /\ eng.ci > Len(CHECKS) /\ 1 \notin eng.raised /\ 7 \notin eng.raised

\* C13: on a document without the drawings heading, if no paragraph refers to a
\* figure, check_required_sections gives no REQ-004 and check_figure_consistency
\* gives nothing; if some paragraph refers to a figure, check_figure_consistency
\* gives exactly one finding, FIG-001, and check_required_sections exactly one
\* REQ-004.
C13_DrawingsDescription ==
    SectionsAndFiguresReturned /\ ~HasDrawingsMarker =>
        /\ ~RefersToFigure =>
              /\ CountOf(<<"R", "E", "Q", "-", "0", "0", "4">>) = 0
              /\ FigureFindings = 0
        /\ RefersToFigure =>
              /\ CountOf(<<"R", "E", "Q", "-", "0", "0", "4">>) = 1
              /\ CountOf(<<"F", "I", "G", "-", "0", "0", "1">>) = 1
              /\ FigureFindings = 1

\* a document without the heading that refers to figures three times, in two
\* paragraphs, has been checked
C13_Witness ==
    /\ SectionsAndFiguresReturned
    /\ ~HasDrawingsMarker
    /\ \E j, k \in DOMAIN DocParagraphs :
          j # k /\ HasFigureRef(DocParagraphs[j]) /\ HasFigureRef(DocParagraphs[k])
    /\ FigureFindings = 1

\* the number expected at the i-th claim: 1 at the first, then the number of the
\* claim before plus 1
ExpectedAt(numbers, i) == IF i = 1 THEN 1 ELSE numbers[i - 1] + 1

\* the places of the claims whose number is not the expected one, in order
RECURSIVE FlaggedFrom(_, _)
FlaggedFrom(numbers, i) ==
    IF i > Len(numbers) THEN <<>>
    ELSE (IF numbers[i] # ExpectedAt(numbers, i) THEN <<i>> ELSE <<>>)
         \o FlaggedFrom(numbers, i + 1)

\* consecutive from 1 but for one gap: from some place on, every number is g too high
OneGap(numbers) ==
    \E j \in DOMAIN numbers, g \in 1..3 :
       \A i \in DOMAIN numbers : numbers[i] = IF i < j THEN i ELSE i + g

\* consecutive from 1 but for one number given twice
OneDuplicate(numbers) ==
    \E j \in DOMAIN numbers :
       /\ j > 1
       /\ \A i \in DOMAIN numbers : numbers[i] = IF i < j THEN i ELSE i - 1

\* C14: check_claim_numbering gives one finding of severity medium for each
\* claim, in document order, whose number differs from the number expected at it,
\* which is 1 at the first claim and the number of the claim before plus 1 at the
\* others, flagged or not; so claims consecutive from 1 but for one gap or one
\* number given twice get exactly one finding.
C14_ExpectedIsPreviousPlusOne ==
    NumberingReturned =>
        LET flagged == FlaggedFrom(ClaimNumbers, 1)
        IN  /\ Len(NumberingFindings) = Len(flagged)
            /\ \A k \in DOMAIN flagged :
                  /\ NumberingFindings[k].severity = "medium"
                  /\ NumberingFindings[k].location = <<"claim", ClaimNumbers[flagged[k]]>>
                  /\ NumberingFindings[k].message =
                        <<"<claim>">> \o StrOf(ClaimNumbers[flagged[k]])
                        \o <<"<differs from the expected order>", " ">>
                        \o StrOf(ExpectedAt(ClaimNumbers, flagged[k])) \o <<" ", "<.>">>
            /\ OneGap(ClaimNumbers) \/ OneDuplicate(ClaimNumbers) =>
                  Len(NumberingFindings) = 1

\* claims 1, 2, 2, 3 have been checked: one finding, for the second claim 2
C14_Witness ==
    /\ NumberingReturned
    /\ ClaimNumbers = <<1, 2, 2, 3>>
    /\ OneDuplicate(ClaimNumbers)
    /\ Len(NumberingFindings) = 1
    /\ NumberingFindings[1].location = <<"claim", 2>>

(***************************************************************************)
(* Properties of the phases of a run and of the autofixes (Spec).          *)
(***************************************************************************)
\* a resolution step is, or has been, under way
ResolutionBegun == cli.pc \in {"review", "decide", "report", "raised", "done"} /\ obj = "open"

\* C15: run_checks has returned before the first resolution step; while the
\* analyzers run the text is the text read at open; the text of the open container
\* changes only in a step of the resolution loop; and the finding list, once
\* returned, is never changed.
C15_PhasesSeparate ==
    /\ [](ResolutionBegun => eng.pc = "returned")
    /\ [](cli.pc = "checks" /\ eng.pc = "checks" => tree = TreeAtOpen)
    /\ [][obj = "open" /\ tree' # tree => cli.pc = "review" /\ cli'.fi = cli.fi + 1]_vars
    /\ [][eng.pc = "returned" => eng' = eng]_vars

\* a fix has changed the text, the next finding is about to be presented, and
\* the finding list is the one computed on the text read at open
C15_Witness ==
    /\ cli.pc = "review"
    /\ tree # TreeAtOpen
    /\ cli.fi = 3
    /\ eng.pc = "returned"
    /\ eng.findings = Deduplicate(Check(1, ComputeParagraphs(TreeAtOpen))
                                  \o Check(2, ComputeParagraphs(TreeAtOpen))
                                  \o Check(3, ComputeParagraphs(TreeAtOpen))
                                  \o Check(4, ComputeParagraphs(TreeAtOpen))
                                  \o Check(5, ComputeParagraphs(TreeAtOpen))
                                  \o Check(6, ComputeParagraphs(TreeAtOpen))
                                  \o Check(7, ComputeParagraphs(TreeAtOpen)))

\* the finding presented in the resolution step under way
Presented == eng.findings[cli.fi]

\* no text run holds the string the autofix of the presented finding looks for
InNoRun ==
    \A i \in DOMAIN tree.runs : ~Contains(tree.runs[i], Presented.autofix[1].old)

\* C16: a resolution step in which the user asks for the autofix of a finding
\* while no single text run holds the string it looks for: replace_text returns
\* false, no run is changed, no error is raised, the resolution of the finding
\* records applied_fix false, and the workflow goes on to the next finding.
C16_NoMatchNoFix ==
    [][(/\ cli.pc = "review"
        /\ cli' # cli
        /\ Presented.autofix # None
        /\ InNoRun
        /\ cli'.resolutions[cli.fi].status = "auto-fixed")
       => /\ ret' = [op |-> "replace_text", val |-> FALSE]
          /\ tree' = tree
          /\ Len(cli'.resolutions) = cli.fi
          /\ cli'.resolutions[cli.fi].finding = Presented
          /\ ~cli'.resolutions[cli.fi].applied_fix
          /\ cli'.fi = cli.fi + 1
          /\ cli'.pc = IF cli.fi < Len(eng.findings) THEN "review" ELSE "decide"]_vars

\* a fix asked for has matched nothing after an earlier fix was applied
C16_Witness ==
    /\ cli.pc = "decide"
    /\ ret = [op |-> "replace_text", val |-> FALSE]
    /\ \E j, k \in DOMAIN cli.resolutions :
          /\ j < k
          /\ cli.resolutions[j].applied_fix
          /\ cli.resolutions[k].status = "auto-fixed"
          /\ ~cli.resolutions[k].applied_fix

(***************************************************************************)
(* Properties of the context snippet (SpecEngine).                         *)
(***************************************************************************)
\* the indices a caller can pass for the paragraphs read: every paragraph,
\* one before the first and two past the last
SnippetIndices == (0 - 1)..(Len(DocParagraphs) + 1)

\* the paragraph at index (counted from 0) is cut by the snippet
Truncated(index) ==
    /\ 0 <= index /\ index < Len(DocParagraphs)
    /\ Len(_normalize_whitespace(DocParagraphs[index + 1])) > SnippetMax

\* C17: for the paragraphs of every document and every index, the context
\* snippet is at most 120 characters long, the ellipsis appended to a
\* truncated paragraph included, and an index outside the paragraph list
\* gives the empty snippet; so is the context of every finding collected.
C17_SnippetAtMost120 ==
    eng.pc # "off" =>
       /\ \A i \in SnippetIndices :
             /\ Len(_paragraph_snippet(DocParagraphs, i)) <= SnippetMax
             /\ ~(0 <= i /\ i < Len(DocParagraphs)) => _paragraph_snippet(DocParagraphs, i) = <<>>
       /\ \A k \in DOMAIN eng.raw : Len(eng.raw[k].context) <= SnippetMax

\* What the code does: the snippet holds the first 120 characters of the
\* normalised paragraph, and one more character, the ellipsis, exactly when
\* the paragraph was longer.
C17_SnippetAtMost121 ==
    eng.pc # "off" =>
       \A i \in SnippetIndices :
          LET s == _paragraph_snippet(DocParagraphs, i)
          IN  /\ Len(s) <= SnippetMax + 1
              /\ Len(s) = SnippetMax + 1 <=> Truncated(i)
              /\ Truncated(i) => s[SnippetMax + 1] = "ELL"
              /\ ~(0 <= i /\ i < Len(DocParagraphs)) => s = <<>>

\* a finding was collected whose context is a truncated paragraph
C17_Witness ==
    /\ eng.pc # "off"
    /\ \E k \in DOMAIN eng.raw, i \in SnippetIndices :
          /\ Truncated(i)
          /\ eng.raw[k].context = _paragraph_snippet(DocParagraphs, i)

(***************************************************************************)
(* Properties of the resolution list (Spec).                               *)
(***************************************************************************)
\* the statuses a resolution is given; the status a resolution has before the
\* answer is looked at is none of them
Statuses == {"auto-fixed", "needs review", "manual", "on hold"}

\* the resolution of index k records an applied fix rightly: its finding has an
\* autofix, apply-now was answered for it, and its status is auto-fixed
RightlyApplied(k) ==
    /\ cli.resolutions[k].finding.autofix # None
    /\ k \in DOMAIN cli.apply_now /\ cli.apply_now[k]
    /\ cli.resolutions[k].status = "auto-fixed"

\* this step appends a resolution that records an applied fix
AppendsApplied ==
    /\ Len(cli'.resolutions) = Len(cli.resolutions) + 1
    /\ cli'.resolutions[Len(cli'.resolutions)].applied_fix

\* C18: in both modes a resolution records applied_fix only if its finding has
\* an autofix, apply-now was answered for it and its status is auto-fixed; no
\* resolution has a status other than the four the workflow gives (none is left
\* unresolved); and the step that appends a resolution recording an applied fix
\* changes the paragraphs of the container.
C18_AppliedFixIsReal ==
    /\ [](\A k \in DOMAIN cli.resolutions :
            /\ cli.resolutions[k].status \in Statuses
            /\ cli.resolutions[k].finding = eng.findings[k]
            /\ cli.resolutions[k].applied_fix => RightlyApplied(k))
    /\ [][AppendsApplied => ComputeParagraphs(tree') # ComputeParagraphs(tree)]_vars

\* the review is over with one fix applied, one asked for that found nothing to
\* change, and a finding without an autofix for which apply-now was answered
C18_Witness ==
    /\ cli.pc = "decide"
    /\ \E i, j, k \in DOMAIN cli.resolutions :
          /\ cli.resolutions[i].applied_fix
          /\ cli.resolutions[j].status = "auto-fixed" /\ ~cli.resolutions[j].applied_fix
          /\ cli.resolutions[k].finding.autofix = None /\ cli.apply_now[k]

(***************************************************************************)
(* Properties of the autofixes applied one after the other (Spec).         *)
(***************************************************************************)
\* the findings that carry an autofix, by their place in the list presented
WithAutofix == {k \in DOMAIN eng.findings : eng.findings[k].autofix # None}

\* the string the autofix of the k-th finding looks for
Flagged(k) == eng.findings[k].autofix[1].old

\* every flagged string lies within a single text run of the document as opened
FlaggedInOneRun ==
    \A k \in WithAutofix :
       \E i \in DOMAIN TreeAtOpen.runs : Contains(TreeAtOpen.runs[i], Flagged(k))

\* the review is over and apply-now was the answer for every finding with an autofix
AllAppliedNow ==
    /\ cli.pc = "decide"
    /\ Len(cli.apply_now) = Len(eng.findings)
    /\ \A k \in WithAutofix : cli.apply_now[k]

\* every application changed the text, and the claim-notation check finds
\* nothing in the text as it is now
Converged ==
    /\ \A k \in WithAutofix : cli.resolutions[k].applied_fix
    /\ check_claim_notation(ComputeParagraphs(tree)) = <<>>

\* no flagged string occurs within the flagged string of another finding (two
\* findings that flag the same string included)
NoFlaggedWithinAnother ==
    \A j, k \in WithAutofix : j # k => ~Contains(Flagged(k), Flagged(j))

\* C19 as stated: on a document whose flagged strings lie each within one text
\* run, apply-now answered for every finding with an autofix makes every one of
\* the applications change the text and leaves nothing for the claim-notation
\* check to find.
C19_EveryFixTakesEffect == (AllAppliedNow /\ FlaggedInOneRun) => Converged

\* the flagged string of the k-th finding holds the flagged string of a finding
\* presented before it
HoldsEarlierFlagged(k) ==
    \E j \in WithAutofix : j < k /\ Contains(Flagged(k), Flagged(j))

\* C19 amended: on such a document and with such answers, the application for
\* a finding changes the text exactly when its flagged string holds the flagged
\* string of no finding presented before it; and when no flagged string occurs
\* within the flagged string of another finding, nothing is left for the
\* claim-notation check to find.
C19_DisjointFixesTakeEffect ==
    (AllAppliedNow /\ FlaggedInOneRun) =>
       /\ \A k \in WithAutofix : cli.resolutions[k].applied_fix <=> ~HoldsEarlierFlagged(k)
       /\ NoFlaggedWithinAnother => Converged

\* two findings with an autofix, apply-now answered for both, both applied
C19_Witness ==
    /\ AllAppliedNow /\ FlaggedInOneRun /\ NoFlaggedWithinAnother
    /\ \E j, k \in WithAutofix : j < k
    /\ tree # TreeAtOpen

====
